---- MODULE Spec2Model ----
(***************************************************************************)
(* Model of the citation pipeline of ref-extractor:                        *)
(*   CitationProcessor (src/js/errorHandler.js, lines 560-1130):           *)
(*     parseFields -> deduplicateCitations -> extractMetadata              *)
(*   OutputFormatter  (src/js/outputFormatter.js, lines 11-530):           *)
(*     setCitations, format, cleanCitations, formatBibliographyWithCounts  *)
(*   FieldExtractor   (src/js/outputFormatter.js, lines 600-1040):         *)
(*     extractFields, extractOfficeOpenXmlFields, extractComplexField-     *)
(*     Content, extractOpenDocumentFields                                  *)
(*   DocumentParser   (src/js/documentParser.js, lines 11-470):            *)
(*     parse, parseDocument, and the page's handlers handleFileSelect and  *)
(*     handleFormatSelect (lines 822-963) that drive the pipeline, with    *)
(*     the page's counter, text area and state, also when a file is        *)
(*     selected while the parse of another is awaited; the concurrent      *)
(*     reads of extractMultipleFiles (lines 168-227)                       *)
(*   Logger (src/unnamed/part_000), ErrorHandler.handleError               *)
(*     (src/js/errorHandler.js, lines 166-371) and the listeners of        *)
(*     setupInterModuleCommunication (src/js/app.js, lines 278-299): the   *)
(*     call stack of one report or one logged message                      *)
(*                                                                         *)
(* The text of a field is a sequence of chunks [kind, items]: what         *)
(* parseField can tell apart in it (blank text, other text, the head and   *)
(* the tail of a CSL payload split over two w:instrText nodes, ...).       *)
(*                                                                         *)
(* Text is modelled as a sequence of tokens.  A token is one character,    *)
(* except for the three literals the code's regular expressions and        *)
(* templates treat as a unit:                                              *)
(*   "TC"  = "Times cited: "     "NL" = "\n"      "TAB" = "\t"             *)
(*   "["   = "["                 "CIT" = " citations] "                    *)
(*   "T100" = a title of a hundred letters x                               *)
(*   "Unknown Title", "Unknown Author" = the texts of these names          *)
(* Array positions are 1-based here and 0-based in the source.             *)
(***************************************************************************)
EXTENDS Integers, Sequences, FiniteSets, TLC

\* ------------------------------------------------------------------ bounds
\* largest number of citation items in one document
MaxEntries == 3
\* number of distinct identifiers (uris) a document may use
NumUris == 2
\* largest number of lines the external renderer returns
MaxLines == 2

\* ------------------------------------------------------------ text helpers
Digit == {"0", "1", "2", "3", "4", "5", "6", "7", "8", "9"}

DigitOf(d) == CASE d = 0 -> "0" [] d = 1 -> "1" [] d = 2 -> "2" [] d = 3 -> "3"
                [] d = 4 -> "4" [] d = 5 -> "5" [] d = 6 -> "6" [] d = 7 -> "7"
                [] d = 8 -> "8" [] d = 9 -> "9"

ValueOf(c) == CASE c = "0" -> 0 [] c = "1" -> 1 [] c = "2" -> 2 [] c = "3" -> 3
                [] c = "4" -> 4 [] c = "5" -> 5 [] c = "6" -> 6 [] c = "7" -> 7
                [] c = "8" -> 8 [] c = "9" -> 9

\* `${count}` : the decimal text of a non-negative integer
RECURSIVE NumberToString(_)
NumberToString(n) ==
    IF n < 10 THEN <<DigitOf(n)>>
    ELSE NumberToString(n \div 10) \o <<DigitOf(n % 10)>>

\* parseInt(text, 10) of a text made of digits only
RECURSIVE ParseInt(_)
ParseInt(s) ==
    IF s = <<>> THEN 0
    ELSE 10 * ParseInt(SubSeq(s, 1, Len(s) - 1)) + ValueOf(s[Len(s)])

IsSpace(c) == c \in {" ", "NL", "TAB"}

\* String.prototype.trim
RECURSIVE TrimLeft(_)
TrimLeft(s) == IF s # <<>> /\ IsSpace(s[1]) THEN TrimLeft(Tail(s)) ELSE s

RECURSIVE TrimRight(_)
TrimRight(s) ==
    IF s # <<>> /\ IsSpace(s[Len(s)]) THEN TrimRight(SubSeq(s, 1, Len(s) - 1)) ELSE s

Trim(s) == TrimRight(TrimLeft(s))

\* Array.prototype.indexOf(x) !== -1
Contains(s, x) == \E k \in 1..Len(s) : s[k] = x

\* ------------------------------------------------------ nullable itemData
\* itemData is null (or the property is absent): <<>> ; an object r: <<r>>
Null == <<>>
Some(r) == <<r>>

\* ---------------------------------------------------- CitationProcessor
\* addCiteCountToItem: prepend `Times cited: ${count}` to the note of item
AddCiteCountToItem(item, count) ==
    LET note      == IF "note" \in DOMAIN item THEN item["note"] ELSE <<>>
        countInfo == <<"TC">> \o NumberToString(count)
    IN  [k \in (DOMAIN item) \cup {"note"} |->
            IF k = "note"
            THEN IF note # <<>> THEN countInfo \o <<"NL">> \o note ELSE countInfo
            ELSE item[k]]

\* deduplicateCitations, lines 741-747: the working array
DeduplicationArray(citations) ==
    [i \in 1..Len(citations) |->
        [item    |-> citations[i].itemData,
         uris    |-> citations[i].uris,
         count   |-> 1,
         index   |-> i,
         indices |-> <<>>]]

\* normalizeUris, lines 812-817: forEach over the matching items, each one
\* pushing onto the current item those of its uris the current item lacks
RECURSIVE PushMatching(_, _, _, _)
PushMatching(arr, i, matching, m) ==
    IF m > Len(matching) THEN arr
    ELSE LET newUris == SelectSeq(arr[matching[m]].uris,
                                  LAMBDA u : ~Contains(arr[i].uris, u))
         IN  PushMatching([arr EXCEPT ![i].uris = @ \o newUris], i, matching, m + 1)

\* deduplicationArray.filter(...): the positions, in array order, of the items
\* that carry uri and whose index is not in dup
RECURSIVE MatchingItems(_, _, _, _)
MatchingItems(arr, uri, dup, k) ==
    IF k > Len(arr) THEN <<>>
    ELSE (IF Contains(arr[k].uris, uri) /\ arr[k].index \notin dup THEN <<k>> ELSE <<>>)
            \o MatchingItems(arr, uri, dup, k + 1)

\* normalizeUris, lines 803-818: the inner loop over the (growing) uris of item i
RECURSIVE NormalizeItem(_, _, _)
NormalizeItem(arr, i, j) ==
    IF j > Len(arr[i].uris) THEN arr
    ELSE LET uri      == arr[i].uris[j]
             matching == MatchingItems(arr, uri, {}, 1)
         IN  NormalizeItem(PushMatching(arr, i, matching, 1), i, j + 1)

\* normalizeUris, lines 800-819: the outer loop
RECURSIVE NormalizeFrom(_, _)
NormalizeFrom(arr, i) ==
    IF i > Len(arr) THEN arr ELSE NormalizeFrom(NormalizeItem(arr, i, 1), i + 1)

\* normalizeUris without the propagation of identifiers
NormalizeUris_Skipped(arr) == arr

NormalizeUris(arr) == NormalizeFrom(arr, 1)

\* the loop iteration marking every matching item, the current one included
DedupStep_MarksSelf(st, i) ==
    LET cur == st.arr[i] IN
    IF cur.index \in st.dup THEN st
    ELSE IF Len(cur.uris) = 0 THEN st
    ELSE LET uri      == cur.uris[1]
             matching == MatchingItems(st.arr, uri, st.dup, 1)
             count    == Len(matching)
             indices  == [m \in 1..Len(matching) |-> st.arr[matching[m]].index]
             item     == IF cur.item # Null
                         THEN Some(AddCiteCountToItem(cur.item[1], count))
                         ELSE cur.item
         IN  [arr |-> [st.arr EXCEPT ![i] = [@ EXCEPT !.count = count,
                                                      !.indices = indices,
                                                      !.item = item]],
              dup |-> st.dup \cup {st.arr[matching[m]].index : m \in
                          {m \in 1..Len(matching) : st.arr[matching[m]].index >= cur.index}}]

\* performDeduplication, lines 835-867: one iteration of the loop;
\* st = [arr, dup] with dup the set duplicateIndices
DedupStep(st, i) ==
    LET cur == st.arr[i] IN
    IF cur.index \in st.dup THEN st
    ELSE IF Len(cur.uris) = 0 THEN st
    ELSE LET uri      == cur.uris[1]
             matching == MatchingItems(st.arr, uri, st.dup, 1)
             count    == Len(matching)
             indices  == [m \in 1..Len(matching) |-> st.arr[matching[m]].index]
             item     == IF cur.item # Null
                         THEN Some(AddCiteCountToItem(cur.item[1], count))
                         ELSE cur.item
         IN  [arr |-> [st.arr EXCEPT ![i] = [@ EXCEPT !.count = count,
                                                      !.indices = indices,
                                                      !.item = item]],
              dup |-> st.dup \cup {st.arr[matching[m]].index : m \in
                          {m \in 1..Len(matching) : st.arr[matching[m]].index > cur.index}}]

RECURSIVE DedupFrom(_, _)
DedupFrom(st, i) ==
    IF i > Len(st.arr) THEN st ELSE DedupFrom(DedupStep(st, i), i + 1)

\* performDeduplication: the retained entries (lines 870-872)
PerformDeduplication(arr) ==
    LET st == DedupFrom([arr |-> arr, dup |-> {}], 1)
    IN  SelectSeq(st.arr, LAMBDA it : it.index \notin st.dup)

\* deduplicateCitations, lines 756-763: back to the public shape.
\* entry.indices is undefined for an entry the loop skipped.
ToResult(deduplicatedArray) ==
    LET kept == SelectSeq(deduplicatedArray, LAMBDA e : e.item # Null)
    IN  [k \in 1..Len(kept) |->
            [itemData |-> kept[k].item,
             uris     |-> kept[k].uris,
             count    |-> kept[k].count,
             indices  |-> IF kept[k].indices # <<>> THEN kept[k].indices
                          ELSE <<kept[k].index>>]]

\* deduplicateCitations as one function; ProcessFields below runs the same
\* three steps, keeping the working array in deduplicatedArray.
DeduplicateCitations(citations) ==
    IF Len(citations) = 0 THEN <<>>
    ELSE ToResult(PerformDeduplication(NormalizeUris(DeduplicationArray(citations))))

\* isValidMetadata without the trim of the title
IsValidMetadata_NoTrim(metadata) ==
    /\ "title" \in DOMAIN metadata
    /\ metadata["title"] # <<>>

\* isValidMetadata: a title that is present, truthy and non-blank
IsValidMetadata(metadata) ==
    /\ "title" \in DOMAIN metadata
    /\ metadata["title"] # <<>>
    /\ Len(Trim(metadata["title"])) > 0

\* extractMetadata keeping every record
ExtractMetadata_KeepsAll(deduplicatedCitations) ==
    [k \in 1..Len(deduplicatedCitations) |-> deduplicatedCitations[k].itemData[1]]

\* extractMetadata: the itemData of the citations that carry valid metadata
ExtractMetadata(deduplicatedCitations) ==
    LET ok == SelectSeq(deduplicatedCitations,
                  LAMBDA c : c.itemData # Null /\ IsValidMetadata(c.itemData[1]))
    IN  [k \in 1..Len(ok) |-> ok[k].itemData[1]]

\* The text of a field is a sequence of chunks.  A chunk is a piece of text
\* that the code reads as a unit, [kind, items]:
\*   kind "space"   - white space
\*   kind "other"   - text the CSL_CITATION prefix does not match, not a
\*                    single word (such as `PAGE \* MERGEFORMAT`)
\*   kind "empty"   - the prefix with nothing after it
\*   kind "badjson" - the prefix and a payload JSON.parse throws on
\*   kind "noitems" - the prefix and a payload without a citationItems array
\*   kind "csl"     - the prefix and a payload whose citationItems are `items`
\*   kind "head"    - the first part of a "csl" text cut in two inside the
\*                    word citationItems of its payload
\*   kind "tail"    - the second part of that text
Chunk(kind, items) == [kind |-> kind, items |-> items]

SpaceChunk == Chunk("space", <<>>)

\* what parseField reads in the text of a field, lines 635-658: the prefix
\* test, the removal of the prefix, JSON.parse and the look at citationItems
ReadField(field) ==
    IF field = <<>> THEN Chunk("other", <<>>)
    ELSE IF field[1].kind \in {"other", "tail", "space"} THEN Chunk("other", <<>>)
    ELSE IF Len(field) = 1
         THEN (IF field[1].kind = "head" THEN Chunk("badjson", <<>>) ELSE field[1])
    ELSE IF field[1].kind = "head" /\ field[Len(field)].kind = "tail"
            /\ \A k \in 2..(Len(field) - 1) : field[k].kind = "space"
         THEN (IF Len(field) = 2 THEN Chunk("csl", field[1].items)
               ELSE Chunk("noitems", <<>>))
    ELSE Chunk("badjson", <<>>)

\* parseField, lines 629-692: the entries of one field
ParseField(field, fieldIndex) ==
    LET read == ReadField(field) IN
    IF read.kind # "csl" THEN <<>>
    ELSE [c \in 1..Len(read.items) |->
            [uris       |-> read.items[c].uris,
             itemData   |-> read.items[c].itemData,
             fieldIndex |-> fieldIndex,
             citeIndex  |-> c]]

RECURSIVE ParseFrom(_, _)
ParseFrom(fs, i) ==
    IF i > Len(fs) THEN <<>> ELSE ParseField(fs[i], i) \o ParseFrom(fs, i + 1)

\* parseFields giving up after the first field
ParseFields_FirstFieldOnly(fs) ==
    IF fs = <<>> THEN <<>> ELSE ParseField(fs[1], 1)

\* parseFields, lines 699-722
ParseFields(fs) == ParseFrom(fs, 1)

\* ------------------------------------------------------ OutputFormatter
\* the number of leading digits of s from position p on
RECURSIVE DigitRun(_, _)
DigitRun(s, p) ==
    IF p <= Len(s) /\ s[p] \in Digit THEN 1 + DigitRun(s, p + 1) ELSE 0

\* note.replace(/Times cited: \d+\n/g, '')
RECURSIVE RemoveCountsFrom(_, _)
RemoveCountsFrom(s, p) ==
    IF p > Len(s) THEN <<>>
    ELSE LET d == DigitRun(s, p + 1) IN
         IF s[p] = "TC" /\ d > 0 /\ p + d + 1 <= Len(s) /\ s[p + d + 1] = "NL"
         THEN RemoveCountsFrom(s, p + d + 2)
         ELSE <<s[p]>> \o RemoveCountsFrom(s, p + 1)

RemoveCounts(note) == RemoveCountsFrom(note, 1)

\* cleanCitations, lines 104-116, for one citation object
CleanCitation(citation) ==
    IF "note" \in DOMAIN citation /\ citation["note"] # <<>>
    THEN LET note == RemoveCounts(citation["note"]) IN
         IF Trim(note) = <<>>
         THEN [f \in DOMAIN citation \ {"note"} |-> citation[f]]
         ELSE [citation EXCEPT !["note"] = note]
    ELSE citation

CleanCitations(citations) ==
    [k \in 1..Len(citations) |-> CleanCitation(citations[k])]

\* the positions p of s where the pattern  first \d+ last  matches
MatchesAt(s, first, last) ==
    {p \in 1..Len(s) :
        LET d == DigitRun(s, p + 1) IN
        /\ s[p] = first
        /\ d > 0
        /\ last # "" => (p + d + 1 <= Len(s) /\ s[p + d + 1] = last)}

\* addCountsToTitle, lines 138-154, for one citation object:
\* note.match(/Times cited: (\d+)/) gives the count, 'NA' without a match
CountToTitle(citation) ==
    LET note  == IF "note" \in DOMAIN citation THEN citation["note"] ELSE <<>>
        at    == MatchesAt(note, "TC", "")
        count == IF at = {} THEN <<"N", "A">>
                 ELSE LET p == CHOOSE q \in at : \A r \in at : q <= r
                      IN  SubSeq(note, p + 1, p + DigitRun(note, p + 1))
    IN  IF "title" \in DOMAIN citation /\ citation["title"] # <<>>
        THEN [citation EXCEPT !["title"] = <<"[">> \o count \o <<"CIT">> \o @]
        ELSE citation

AddCountsToTitle(citations) ==
    [k \in 1..Len(citations) |-> CountToTitle(citations[k])]

\* formatBibliographyWithCounts, lines 178-191: one rendered line becomes
\* <<>> (dropped) or <<[count, row]>>;  line.match(/\[(\d+) citations\] /)
CountedLine(line) ==
    IF Trim(line) = <<>> THEN <<>>
    ELSE LET at == MatchesAt(line, "[", "CIT") IN
         IF at # {}
         THEN LET p     == CHOOSE q \in at : \A r \in at : q <= r
                  d     == DigitRun(line, p + 1)
                  count == SubSeq(line, p + 1, p + d)
                  cleanedLine == SubSeq(line, 1, p - 1)
                                    \o SubSeq(line, p + d + 2, Len(line))
              IN  <<[count |-> ParseInt(count),
                     row   |-> count \o <<"TAB">> \o cleanedLine]>>
         ELSE <<[count |-> 0, row |-> <<"0", "TAB">> \o line]>>

RECURSIVE CountedLines(_)
CountedLines(lines) ==
    IF lines = <<>> THEN <<>> ELSE CountedLine(lines[1]) \o CountedLines(Tail(lines))

\* formattedLines.sort((a, b) => b[0] - a[0]) : stable, largest count first
RECURSIVE InsertByCount(_, _)
InsertByCount(sorted, x) ==
    IF sorted = <<>> THEN <<x>>
    ELSE IF sorted[1].count >= x.count
         THEN <<sorted[1]>> \o InsertByCount(Tail(sorted), x)
         ELSE <<x>> \o sorted

\* formatBibliographyWithCounts without the sort
SortByCount_Unsorted(s) == s

RECURSIVE SortByCount(_)
SortByCount(s) ==
    IF s = <<>> THEN <<>>
    ELSE InsertByCount(SortByCount(SubSeq(s, 1, Len(s) - 1)), s[Len(s)])

\* Array.prototype.join('\n')
RECURSIVE JoinLines(_)
JoinLines(rows) ==
    IF rows = <<>> THEN <<>>
    ELSE IF Len(rows) = 1 THEN rows[1]
    ELSE rows[1] \o <<"NL">> \o JoinLines(Tail(rows))

Header == <<"cite_count", "TAB", "reference", "NL">>

\* formatBibliographyWithCounts, lines 194-203, on the lines the renderer
\* returned for the citations with their counts in the titles
FormatBibliographyWithCounts(lines) ==
    LET sorted == SortByCount(CountedLines(lines))
        rows   == [k \in 1..Len(sorted) |-> sorted[k].row]
        body   == SelectSeq(rows, LAMBDA r : ~(r[1] = "0" /\ r[2] = "TAB"))
    IN  Header \o JoinLines(body)

\* JSON.stringify / JSON.parse of a list of objects whose values are texts:
\* the list of objects with every value escaped, and back
RECURSIVE JsonEscape(_)
JsonEscape(s) ==
    IF s = <<>> THEN <<>>
    ELSE (CASE s[1] = "NL"  -> <<"\\", "n">>
            [] s[1] = "TAB" -> <<"\\", "t">>
            [] OTHER        -> <<s[1]>>) \o JsonEscape(Tail(s))

RECURSIVE JsonUnescape(_)
JsonUnescape(s) ==
    IF s = <<>> THEN <<>>
    ELSE IF s[1] = "\\" /\ Len(s) > 1
         THEN <<(IF s[2] = "n" THEN "NL" ELSE "TAB")>> \o JsonUnescape(SubSeq(s, 3, Len(s)))
         ELSE <<s[1]>> \o JsonUnescape(Tail(s))

JsonStringify(citations) ==
    [k \in 1..Len(citations) |->
        [f \in DOMAIN citations[k] |-> JsonEscape(citations[k][f])]]

JsonParse(json) ==
    [k \in 1..Len(json) |-> [f \in DOMAIN json[k] |-> JsonUnescape(json[k][f])]]

\* what format returns: a text, or the JSON of a list of objects
NoOutput == [text |-> <<>>, json |-> <<>>]
TextOutput(t) == [text |-> t, json |-> <<>>]
JsonOutput(j) == [text |-> <<>>, json |-> j]

\* An author is a list of name objects, each one token of the text model:
\*   "Doe" = {family: 'Doe', given: 'J'}     "Roe" = {family: 'Roe', given: 'R'}
\* Any other non-empty author value is a string.
NameTokens == {"Doe", "Roe"}

IsNameList(author) ==
    author # <<>> /\ \A k \in 1..Len(author) : author[k] \in NameTokens

\* `${a.family}, ${a.given}`
NameText(a) == CASE a = "Doe" -> <<"D", "o", "e", ",", " ", "J">>
                 [] a = "Roe" -> <<"R", "o", "e", ",", " ", "R">>

\* Array.prototype.join(', ')
RECURSIVE JoinCommaSpace(_)
JoinCommaSpace(parts) ==
    IF parts = <<>> THEN <<>>
    ELSE IF Len(parts) = 1 THEN parts[1]
    ELSE parts[1] \o <<",", " ">> \o JoinCommaSpace(Tail(parts))

Truthy(citation, f) == f \in DOMAIN citation /\ citation[f] # <<>>

\* formatFallback, lines 296-302: citation.author.map is no function when the
\* author is a string, and the TypeError leaves formatFallback
FallbackThrows(citations, format) ==
    /\ format = "bibliography"
    /\ \E k \in 1..Len(citations) :
          Truthy(citations[k], "author") /\ ~IsNameList(citations[k]["author"])

\* formatFallback, lines 296-301: the line of one citation
FallbackLine(citation, index) ==
    LET title  == IF Truthy(citation, "title") THEN citation["title"]
                  ELSE <<"Unknown Title">>
        author == IF Truthy(citation, "author")
                  THEN JoinCommaSpace([k \in 1..Len(citation["author"]) |->
                                          NameText(citation["author"][k])])
                  ELSE <<"Unknown Author">>
    IN  NumberToString(index) \o <<".", " ">> \o author \o <<".", " ">> \o title
            \o <<".">>

\* formatFallback, lines 283-307, when it returns
FormatFallback(citations, format) ==
    IF Len(citations) = 0 THEN NoOutput
    ELSE IF format = "data" THEN JsonOutput(JsonStringify(CleanCitations(citations)))
    ELSE IF format = "data-with-counts" THEN JsonOutput(JsonStringify(citations))
    ELSE IF format = "bibliography"
    THEN (IF FallbackThrows(citations, format) THEN NoOutput
          ELSE TextOutput(JoinLines([k \in 1..Len(citations) |->
                                        FallbackLine(citations[k], k)])))
    ELSE JsonOutput(JsonStringify(citations))

\* formatWithCitationJs, lines 235-259, when the rendering library is there
\* and does not throw.  `lines` is what the library returns for the call, line
\* by line; for the format 'data' the library returns the JSON of the records
\* it was given; 'data-with-counts' is no format of the library, so that the
\* records come back as JSON with their notes as they are.
FormatWithCitationJs(citations, format, lines) ==
    IF format = "bibliography-with-counts"
    THEN TextOutput(FormatBibliographyWithCounts(lines))
    ELSE IF format = "data" THEN JsonOutput(JsonStringify(CleanCitations(citations)))
    ELSE IF format = "data-with-counts" THEN JsonOutput(JsonStringify(citations))
    ELSE TextOutput(JoinLines(lines))

\* the characters of a token of the text model
CharsOf(t) ==
    CASE t = "TC"     -> <<"T", "i", "m", "e", "s", " ", "c", "i", "t", "e", "d", ":", " ">>
      [] t = "CIT"    -> <<" ", "c", "i", "t", "a", "t", "i", "o", "n", "s", "]", " ">>
      [] t = "NL"     -> <<"\\", "n">>
      [] t = "TAB"    -> <<"\\", "t">>
      [] t = "title"  -> <<"t", "i", "t", "l", "e">>
      [] t = "author" -> <<"a", "u", "t", "h", "o", "r">>
      [] t = "note"   -> <<"n", "o", "t", "e">>
      [] t = "Doe"    -> <<"{", "\"", "f", "a", "m", "i", "l", "y", "\"", ":", "\"", "D",
                           "o", "e", "\"", ",", "\"", "g", "i", "v", "e", "n", "\"", ":",
                           "\"", "J", "\"", "}">>
      [] t = "Roe"    -> <<"{", "\"", "f", "a", "m", "i", "l", "y", "\"", ":", "\"", "R",
                           "o", "e", "\"", ",", "\"", "g", "i", "v", "e", "n", "\"", ":",
                           "\"", "R", "\"", "}">>
      [] t = "T100"   -> [i \in 1..100 |-> "x"]
      [] OTHER        -> <<t>>

RECURSIVE CharsOfText(_)
CharsOfText(s) == IF s = <<>> THEN <<>> ELSE CharsOf(s[1]) \o CharsOfText(Tail(s))

\* the keys of an object in insertion order: the records of the model are
\* written title, author, note, and addCiteCountToItem adds note last
KeyOrder == <<"title", "author", "note">>

RECURSIVE JoinComma(_)
JoinComma(parts) ==
    IF parts = <<>> THEN <<>>
    ELSE IF Len(parts) = 1 THEN parts[1]
    ELSE parts[1] \o <<",">> \o JoinComma(Tail(parts))

\* JSON.stringify of one value: a list of name objects, or a string
ValueChars(obj, f) ==
    IF f = "author" /\ IsNameList(obj[f])
    THEN <<"[">> \o JoinComma([k \in 1..Len(obj[f]) |-> CharsOf(obj[f][k])]) \o <<"]">>
    ELSE <<"\"">> \o CharsOfText(obj[f]) \o <<"\"">>

\* JSON.stringify(citations), character by character
ObjectChars(obj) ==
    LET keys == SelectSeq(KeyOrder, LAMBDA f : f \in DOMAIN obj)
    IN  <<"{">> \o JoinComma([k \in 1..Len(keys) |->
                    <<"\"">> \o CharsOf(keys[k]) \o <<"\"", ":">>
                        \o ValueChars(obj, keys[k])])
            \o <<"}">>

JsonChars(citations) ==
    <<"[">> \o JoinComma([k \in 1..Len(citations) |-> ObjectChars(citations[k])])
        \o <<"]">>

\* .slice(0, 100) of the JSON text
CacheKeyLength == 100

\* cache capacity
MaxCacheSize == 100

\* generateCacheKey; options is {} in every call the application makes
GenerateCacheKey(citations, format) ==
    LET json == JsonChars(citations)
    IN  [format        |-> format,
         citationsHash |-> SubSeq(json, 1, IF Len(json) < CacheKeyLength
                                           THEN Len(json) ELSE CacheKeyLength),
         optionsHash   |-> <<"{", "}">>]

\* ------------------------------------------------------- FieldExtractor
\* A content file is [empty, parses, paragraphs, marks]:
\*   empty      - the file holds nothing but white space
\*   parses     - DOMParser finds no parsererror in it
\*   paragraphs - for each parent of runs, its child nodes in order; a node
\*                is [begin, end, instr]: whether it holds a fldChar of type
\*                begin, one of type end, and the text of its instrText
\*                elements (a node that is no element has none of them)
\*   marks      - the text:name attributes of the reference marks, in order

\* extractComplexFieldContent, line 741
MaxIterations == 1000

\* String.prototype.trim on a text of chunks
RECURSIVE TrimChunksLeft(_)
TrimChunksLeft(t) ==
    IF t # <<>> /\ t[1].kind = "space" THEN TrimChunksLeft(Tail(t)) ELSE t

RECURSIVE TrimChunksRight(_)
TrimChunksRight(t) ==
    IF t # <<>> /\ t[Len(t)].kind = "space"
    THEN TrimChunksRight(SubSeq(t, 1, Len(t) - 1)) ELSE t

TrimChunks_LeftOnly(t) == TrimChunksLeft(t)

TrimChunks(t) == TrimChunksRight(TrimChunksLeft(t))

\* the walk without its iteration ceiling
WalkStep_NoCeiling(nodes, st) ==
    IF ~(st.nextRun # 0)
    THEN [st EXCEPT !.done = TRUE]
    ELSE IF nodes[st.nextRun].end
    THEN [st EXCEPT !.iterationCount = @ + 1, !.done = TRUE]
    ELSE [st EXCEPT !.iterationCount = @ + 1,
                    !.instrTextContent = @ \o nodes[st.nextRun].instr,
                    !.nextRun = IF st.nextRun < Len(nodes) THEN st.nextRun + 1 ELSE 0]

\* extractComplexFieldContent, lines 743-767: the test of the while loop and
\* one pass through its body; nextRun is a position in nodes, 0 for null
WalkStep(nodes, st) ==
    IF ~(st.nextRun # 0 /\ st.iterationCount < MaxIterations)
    THEN [st EXCEPT !.done = TRUE]
    ELSE IF nodes[st.nextRun].end
    THEN [st EXCEPT !.iterationCount = @ + 1, !.done = TRUE]
    ELSE [st EXCEPT !.iterationCount = @ + 1,
                    !.instrTextContent = @ \o nodes[st.nextRun].instr,
                    !.nextRun = IF st.nextRun < Len(nodes) THEN st.nextRun + 1 ELSE 0]

\* the while loop: WalkStep until the loop is left, n passes at most
RECURSIVE WalkLoop(_, _, _)
WalkLoop(nodes, st, n) ==
    IF st.done \/ n = 0 THEN st
    ELSE IF n = 1 THEN WalkStep(nodes, st)
    ELSE WalkLoop(nodes, WalkLoop(nodes, st, n \div 2), n - (n \div 2))

\* extractComplexFieldContent for the begin marker in node r of nodes: the
\* text returned, the passes made and whether the warning was logged.  Every
\* pass moves to the next sibling, so Len(nodes) + 1 passes leave the loop.
ExtractComplexFieldContent(nodes, r) ==
    LET st == WalkLoop(nodes,
                       [nextRun          |-> IF r < Len(nodes) THEN r + 1 ELSE 0,
                        iterationCount   |-> 0,
                        instrTextContent |-> <<>>,
                        done             |-> FALSE],
                       Len(nodes) + 1)
    IN  [content        |-> TrimChunks(st.instrTextContent),
         iterationCount |-> st.iterationCount,
         warned         |-> st.iterationCount >= MaxIterations]

\* the positions of the nodes holding a begin marker, in document order
RECURSIVE InOrderOf(_)
InOrderOf(S) ==
    IF S = {} THEN <<>>
    ELSE LET r == CHOOSE x \in S : \A y \in S : x <= y
         IN  <<r>> \o InOrderOf(S \ {r})

ComplexFieldStarts(nodes) == InOrderOf({r \in 1..Len(nodes) : nodes[r].begin})

\* extractOfficeOpenXmlFields, lines 706-716, within one parent: the walk of
\* every begin marker
WalksIn(nodes) ==
    LET starts == ComplexFieldStarts(nodes)
    IN  [k \in 1..Len(starts) |-> ExtractComplexFieldContent(nodes, starts[k])]

RECURSIVE WalksOf(_)
WalksOf(paragraphs) ==
    IF paragraphs = <<>> THEN <<>>
    ELSE WalksIn(paragraphs[1]) \o WalksOf(Tail(paragraphs))

\* extractOfficeOpenXmlFields for a file that parses: the texts pushed
ExtractOfficeOpenXmlFields(file) ==
    LET pushed == SelectSeq(WalksOf(file.paragraphs), LAMBDA w : w.content # <<>>)
    IN  [k \in 1..Len(pushed) |-> pushed[k].content]

\* extractOpenDocumentFields for a file that parses
ExtractOpenDocumentFields(file) ==
    LET pushed == SelectSeq(file.marks, LAMBDA name : TrimChunks(name) # <<>>)
    IN  [k \in 1..Len(pushed) |-> TrimChunks(pushed[k])]

\* extractFields, lines 1001-1011: one pass of the forEach; parseXmlString
\* throws for a file that does not parse and the pass is left
FieldsOfFile(file, documentType) ==
    IF ~file.parses THEN <<>>
    ELSE IF documentType = "OfficeOpenXML" THEN ExtractOfficeOpenXmlFields(file)
    ELSE ExtractOpenDocumentFields(file)

RECURSIVE ExtractFrom(_, _)
ExtractFrom(contentFiles, documentType) ==
    IF contentFiles = <<>> THEN <<>>
    ELSE FieldsOfFile(contentFiles[1], documentType)
            \o ExtractFrom(Tail(contentFiles), documentType)

\* extractFields leaving at the first file that does not parse
ExtractFields_AbortsOnFailure(contentFiles, documentType) ==
    IF \E k \in 1..Len(contentFiles) : ~contentFiles[k].parses THEN <<>>
    ELSE ExtractFrom(contentFiles, documentType)

\* FieldExtractor.extractFields, lines 980-1036
ExtractFields(contentFiles, documentType) == ExtractFrom(contentFiles, documentType)

\* the walks extractFields makes, file by file
RECURSIVE WalksOfFiles(_, _)
WalksOfFiles(contentFiles, documentType) ==
    IF contentFiles = <<>> THEN <<>>
    ELSE (IF contentFiles[1].parses /\ documentType = "OfficeOpenXML"
          THEN WalksOf(contentFiles[1].paragraphs) ELSE <<>>)
            \o WalksOfFiles(Tail(contentFiles), documentType)

\* ------------------------------------------------------- DocumentParser
\* A selected file is [name, size, zip, files]: its name, its size in bytes,
\* whether JSZip can load it ("ok" or "corrupt"), and the entries of the
\* archive in order, each [name, content].
MaxFileSize == 50 * 1024 * 1024

NoDocument == [type |-> "none", contentFiles |-> <<>>, extractedFiles |-> <<>>]

IdleParsingState == [isProcessing |-> FALSE, currentFile |-> "none", progress |-> 0]

\* isDocumentTypeSupported, lines 462-469
IsDocumentTypeSupported(file) == file.name \in {"paper.docx", "paper.odt"}

\* Object.keys(zip.files)
FilesInZip(file) == [k \in 1..Len(file.files) |-> file.files[k].name]

\* validateZipFile, lines 138-160
ValidateZipFile(file) == Len(file.files) # 0

\* detectDocumentType, lines 68-90
DetectDocumentType(file) ==
    IF Contains(FilesInZip(file), "word/document.xml") THEN "OfficeOpenXML"
    ELSE IF Contains(FilesInZip(file), "content.xml") THEN "OpenDocument"
    ELSE "none"

\* getFilesToExtract, lines 98-131: the entries to read, in archive order
GetFilesToExtract(documentType, file) ==
    LET possibleContentFiles ==
            IF documentType = "OfficeOpenXML"
            THEN {"word/document.xml", "word/footnotes.xml", "word/endnotes.xml"}
            ELSE IF documentType = "OpenDocument" THEN {"content.xml"}
            ELSE {}
    IN  SelectSeq(file.files, LAMBDA f : f.name \in possibleContentFiles)

\* parseDocument, lines 250-337: what the try block comes to, an error thrown
\* or the document object
ParseDocument(file) ==
    IF file.zip # "ok" THEN [threw |-> TRUE, document |-> NoDocument]
    ELSE IF ~ValidateZipFile(file) THEN [threw |-> TRUE, document |-> NoDocument]
    ELSE LET documentType   == DetectDocumentType(file)
             filesToExtract == GetFilesToExtract(documentType, file)
         IN  IF documentType = "none" THEN [threw |-> TRUE, document |-> NoDocument]
             ELSE IF Len(filesToExtract) = 0
                  THEN [threw |-> TRUE, document |-> NoDocument]
             ELSE IF \E k \in 1..Len(filesToExtract) : filesToExtract[k].content.empty
                  THEN [threw |-> TRUE, document |-> NoDocument]
             ELSE [threw    |-> FALSE,
                   document |-> [type |-> documentType,
                                 contentFiles |->
                                     [k \in 1..Len(filesToExtract) |->
                                         filesToExtract[k].content],
                                 extractedFiles |->
                                     [k \in 1..Len(filesToExtract) |->
                                         filesToExtract[k].name]]]

\* parseDocument without its finally block
ResetParsingState_Skipped(state) == state

\* parseDocument, lines 367-372: the finally block
ResetParsingState(state) == IdleParsingState

\* ------------------------------------------------------------------ inputs
Uris == 1..NumUris

\* a citation item's uris: at most two distinct identifiers
UriLists == {<<>>} \cup {<<u>> : u \in Uris}
                   \cup {<<u, v>> : <<u, v>> \in {p \in Uris \X Uris : p[1] # p[2]}}

ShortUriLists == {<<>>} \cup {<<u>> : u \in Uris}

RecX == [title |-> <<"X">>]
RecY == [title |-> <<"Y">>, note |-> <<"a">>]
RecBlank == [title |-> <<" ">>, author |-> <<"A">>]
RecUntitled == [note |-> <<>>]
RecByNames == [title |-> <<"X">>, author |-> <<"Doe", "Roe">>]
RecByText == [title |-> <<"Y">>, author |-> <<"A">>]
RecLong == [title |-> <<"T100">>]
RecCounted == [title |-> <<"X">>, note |-> <<"TC", "1">>]
RecCountedNote == [title |-> <<"Y">>, note |-> <<"TC", "1", "NL", "a">>]

ItemDatas == {Null, Some(RecX), Some(RecY), Some(RecBlank), Some(RecUntitled)}

\* items rich in metadata, items rich in identifiers, items rich in authors
MetaCites == [uris : ShortUriLists, itemData : ItemDatas]
ClusterCites == [uris : UriLists, itemData : {Null, Some(RecX)}]
FewCites == [uris : {<<>>, <<1>>},
             itemData : {Some(RecX), Some(RecY), Some(RecByNames), Some(RecByText)}]

CitationItem(uris, rec) == [uris |-> uris, itemData |-> Some(rec)]

\* the largest identifier in a list of identifiers, at least k
RECURSIVE MaxUri(_, _)
MaxUri(us, k) ==
    IF us = <<>> THEN k ELSE MaxUri(Tail(us), IF us[1] > k THEN us[1] ELSE k)

\* identifiers are only compared for equality (indexOf), so a document is
\* taken up to renaming: each new identifier is the next unused number
RECURSIVE InOrder(_, _)
InOrder(us, k) ==
    us = <<>> \/ (us[1] <= k + 1 /\ InOrder(Tail(us), IF us[1] > k THEN us[1] ELSE k))

RECURSIVE UsedUris(_)
UsedUris(cites) ==
    IF cites = <<>> THEN 0
    ELSE MaxUri(cites[Len(cites)].uris, UsedUris(SubSeq(cites, 1, Len(cites) - 1)))

\* the lists of at most n items of S, identifiers in order of first use
RECURSIVE CiteLists(_, _)
CiteLists(S, n) ==
    IF n = 0 THEN {<<>>}
    ELSE LET shorter == CiteLists(S, n - 1)
         IN  shorter \cup
             {Append(s, x) : <<s, x>> \in
                 {p \in {t \in shorter : Len(t) = n - 1} \X S :
                     InOrder(p[2].uris, UsedUris(p[1]))}}

\* all sequences over S of length at most n
RECURSIVE SeqsUpTo(_, _)
SeqsUpTo(S, n) ==
    IF n = 0 THEN {<<>>}
    ELSE LET shorter == SeqsUpTo(S, n - 1)
         IN  shorter \cup {Append(s, x) : s \in {t \in shorter : Len(t) = n - 1}, x \in S}

\* the document's fields: a field that is no citation, then the items two to a field
RECURSIVE CslFields(_)
CslFields(cites) ==
    IF cites = <<>> THEN <<>>
    ELSE LET n     == IF Len(cites) = 1 THEN 1 ELSE 2
             first == [kind |-> "csl", items |-> SubSeq(cites, 1, n)]
         IN  <<first>> \o CslFields(SubSeq(cites, n + 1, Len(cites)))

Document(cites) == <<[kind |-> "other", items |-> <<>>]>> \o CslFields(cites)

\* the nodes of a content file
BeginNode == [begin |-> TRUE, end |-> FALSE, instr |-> <<>>]
EndNode == [begin |-> FALSE, end |-> TRUE, instr |-> <<>>]
PlainNode == [begin |-> FALSE, end |-> FALSE, instr |-> <<>>]
InstrNode(text) == [begin |-> FALSE, end |-> FALSE, instr |-> text]

\* a complex field as the word processor writes it: begin marker, instruction
\* text, the displayed result, end marker
FieldNodes(text) == <<BeginNode, InstrNode(text), PlainNode, EndNode>>

\* a content file with one paragraph for each of the chunks, each one a field
ContentOf(chunks) ==
    [empty      |-> FALSE,
     parses     |-> TRUE,
     paragraphs |-> [k \in 1..Len(chunks) |-> FieldNodes(<<chunks[k]>>)],
     marks      |-> <<>>]

Docx(files) == [name |-> "paper.docx", size |-> 1, zip |-> "ok", files |-> files]

\* the .docx file of a document citing `cites`
Package(cites) ==
    Docx(<<[name |-> "word/document.xml", content |-> ContentOf(Document(cites))]>>)

BlankContent == [empty |-> TRUE, parses |-> FALSE, paragraphs |-> <<>>, marks |-> <<>>]
BrokenContent == [empty |-> FALSE, parses |-> FALSE, paragraphs |-> <<>>, marks |-> <<>>]

CslChunk(cites) == Chunk("csl", cites)

\* a paragraph of fields of every kind, the last one cut over two nodes, and
\* a paragraph whose begin marker has no end marker
MixedContent ==
    [empty      |-> FALSE,
     parses     |-> TRUE,
     paragraphs |->
        << FieldNodes(<<SpaceChunk, Chunk("badjson", <<>>), SpaceChunk>>)
             \o FieldNodes(<<CslChunk(<<CitationItem(<<1>>, RecX), CitationItem(<<>>, RecY)>>)>>)
             \o FieldNodes(<<SpaceChunk>>)
             \o FieldNodes(<<Chunk("noitems", <<>>)>>)
             \o FieldNodes(<<Chunk("empty", <<>>)>>)
             \o <<BeginNode,
                  InstrNode(<<SpaceChunk, Chunk("head", <<CitationItem(<<1>>, RecX)>>)>>),
                  InstrNode(<<Chunk("tail", <<>>), SpaceChunk>>),
                  EndNode>>,
           <<PlainNode, BeginNode, InstrNode(<<Chunk("other", <<>>)>>),
             InstrNode(<<CslChunk(<<CitationItem(<<2>>, RecBlank)>>)>>)>> >>,
     marks      |-> <<>>]

\* a begin marker followed by more nodes than the walk visits, the end of the
\* field's text beyond them, and a second paragraph with a field
LongContent ==
    [empty      |-> FALSE,
     parses     |-> TRUE,
     paragraphs |->
        << [i \in 1..(MaxIterations + 4) |->
               IF i = 1 THEN BeginNode
               ELSE IF i = 2 THEN InstrNode(<<Chunk("head", <<CitationItem(<<1>>, RecX)>>)>>)
               ELSE IF i = MaxIterations + 2 THEN InstrNode(<<Chunk("tail", <<>>)>>)
               ELSE IF i = MaxIterations + 3 THEN EndNode
               ELSE PlainNode],
           FieldNodes(<<CslChunk(<<CitationItem(<<1>>, RecY)>>)>>) >>,
     marks      |-> <<>>]

\* a begin marker whose end marker is the last node the walk may visit
EdgeContent ==
    [empty      |-> FALSE,
     parses     |-> TRUE,
     paragraphs |->
        << [i \in 1..(MaxIterations + 1) |->
               IF i = 1 THEN BeginNode
               ELSE IF i = 2 THEN InstrNode(<<CslChunk(<<CitationItem(<<1>>, RecX)>>)>>)
               ELSE IF i = MaxIterations + 1 THEN EndNode
               ELSE PlainNode] >>,
     marks      |-> <<>>]

MarksContent ==
    [empty      |-> FALSE,
     parses     |-> TRUE,
     paragraphs |-> <<>>,
     marks      |-> << <<SpaceChunk, CslChunk(<<CitationItem(<<1>>, RecX)>>), SpaceChunk>>,
                       <<SpaceChunk>>,
                       <<Chunk("other", <<>>)>>,
                       <<CslChunk(<<CitationItem(<<1>>, RecX), CitationItem(<<2>>, RecY)>>)>> >>]

\* the files the user may select
SelectableFiles ==
    { [name |-> "paper.docx", size |-> 1, zip |-> "corrupt", files |-> <<>>],
      Docx(<<>>),
      Docx(<<[name |-> "mimetype", content |-> BlankContent]>>),
      [name |-> "paper.docx", size |-> MaxFileSize + 1, zip |-> "ok",
       files |-> <<[name |-> "word/document.xml", content |-> MixedContent]>>],
      [name |-> "paper.txt", size |-> 1, zip |-> "ok",
       files |-> <<[name |-> "word/document.xml", content |-> MixedContent]>>],
      Docx(<<[name |-> "word/document.xml", content |-> BlankContent]>>),
      Docx(<<[name |-> "word/document.xml",
              content |-> ContentOf(<<CslChunk(<<CitationItem(<<1>>, RecX)>>)>>)],
             [name |-> "word/footnotes.xml", content |-> BrokenContent],
             [name |-> "styles.xml", content |-> BrokenContent],
             [name |-> "word/endnotes.xml",
              content |-> ContentOf(<<CslChunk(<<CitationItem(<<1>>, RecX)>>)>>)]>>),
      Docx(<<[name |-> "word/document.xml", content |-> MixedContent]>>),
      Docx(<<[name |-> "word/document.xml", content |-> LongContent]>>),
      Docx(<<[name |-> "word/document.xml", content |-> EdgeContent]>>),
      [name |-> "paper.odt", size |-> 1, zip |-> "ok",
       files |-> <<[name |-> "content.xml", content |-> MarksContent]>>],
      Package(<<CitationItem(<<1>>, RecLong), CitationItem(<<2>>, RecX)>>),
      Package(<<CitationItem(<<1>>, RecLong), CitationItem(<<2>>, RecY)>>),
      Package(<<CitationItem(<<1>>, RecCounted), CitationItem(<<>>, RecCounted),
                CitationItem(<<2>>, RecCountedNote)>>),
      Package(<<>>) }

\* the largest number of files the user selects one after the other
MaxFiles == 2

\* the files of a user who selects again during a parse
OverlapFiles ==
    { [name |-> "paper.docx", size |-> 1, zip |-> "corrupt", files |-> <<>>],
      [name |-> "paper.txt", size |-> 1, zip |-> "ok",
       files |-> <<[name |-> "word/document.xml", content |-> MixedContent]>>],
      Docx(<<[name |-> "word/document.xml", content |-> MixedContent]>>),
      [name |-> "paper.odt", size |-> 1, zip |-> "ok",
       files |-> <<[name |-> "content.xml", content |-> MarksContent]>>],
      Package(<<CitationItem(<<1>>, RecX), CitationItem(<<1>>, RecX)>>),
      Package(<<CitationItem(<<1>>, RecY)>>),
      Package(<<>>) }

\* lines the rendering library may return for a bibliography
RenderedLines ==
    { <<"[", "3", "CIT", "A">>,          \* "[3 citations] A"
      <<"[", "0", "CIT", "B">>,          \* "[0 citations] B"
      <<"[", "1", "0", "CIT", "A">>,     \* "[10 citations] A"
      <<"[", "0", "0", "CIT", "B">>,     \* "[00 citations] B"
      <<"A", "[", "2", "CIT", "B">>,     \* "A[2 citations] B"
      <<"[", "CIT", "A">>,               \* "[ citations] A"
      <<"B">>,                           \* "B"
      <<" ">> }                          \* " "

\* the n-th list of a caller that formats many lists
NumberedList(n) == <<[title |-> NumberToString(n)]>>

\* the number of results such a caller has stored at most
MaxStored == 102

\* the arguments of a caller of setCitations and format: lists of records, or
\* a value that is no array (null, undefined, a string)
ApiLists == {<<>>, <<RecX>>, <<RecByNames>>}
ArrayOf(list) == [isArray |-> TRUE, items |-> list]
NotAnArray == [isArray |-> FALSE, items |-> <<>>]
ApiArguments == {ArrayOf(list) : list \in ApiLists} \cup {NotAnArray}
ApiFormats == {"bibliography", "data-with-counts"}

Formats == {"data", "data-with-counts", "bibtex", "ris", "bibliography",
            "bibliography-with-counts"}

\* ------------------------------------------------------------------- state
VARIABLES
    pending,              \* the files the user is still to select, in order
    file,                 \* the file selected last
    currentDocument,      \* DocumentParser: currentDocument
    parsingState,         \* DocumentParser: parsingState
    fields,               \* the fields extractFields returned last
    walks,                \* the sibling walks of that call, in order
    pc,                   \* "idle", "parsing", "parsed", "ready", "processed", "set"
    result,               \* what processFields returned
    deduplicatedArray,    \* what performDeduplication returned in that call
    processedCitations,   \* CitationProcessor: processedCitations
    processingStats,      \* CitationProcessor: processingStats
    currentCitations,     \* OutputFormatter: currentCitations
    formattingCache,      \* OutputFormatter: formattingCache, in insertion order
    stored,               \* the keys format has stored so far, oldest first
    selectedFormat,       \* the value of the output format selector
    citeAvailable,        \* whether the rendering library is loaded
    citeThrows,           \* whether the rendering library throws when called
    bibliography,         \* the lines the library renders when it is called
    output,               \* what the last call of format by the selector returned
    thrown,               \* whether that call threw instead
    awaiting,             \* the files whose parse a handler awaits, oldest first
    duringParse,          \* whether the last file was selected during such a wait
    extractCount,         \* the page: what the citation counter shows
    textArea,             \* the page: the value of the text area
    currentState,         \* the page's controller: currentState
    reads,                \* DocumentParser: one call of extractMultipleFiles
    events                \* the logger and the error handler: the calls in
                          \* progress and what they have stored

parserVars == <<currentDocument, parsingState>>
extractorVars == <<fields, walks>>
processorVars == <<result, deduplicatedArray, processedCitations, processingStats>>
rendererVars == <<selectedFormat, citeAvailable, citeThrows, bibliography>>
cacheVars == <<formattingCache, stored>>
handlerVars == <<awaiting, duringParse>>
uiVars == <<extractCount, textArea, currentState>>

vars == <<pending, file, parserVars, extractorVars, pc, processorVars,
          currentCitations, cacheVars, rendererVars, output, thrown,
          handlerVars, uiVars, reads, events>>

\* the state of the page and of its modules apart from reads and events
pageVars == <<pending, file, parserVars, extractorVars, pc, processorVars,
              currentCitations, cacheVars, rendererVars, output, thrown,
              handlerVars, uiVars>>

\* no call of extractMultipleFiles was made
NoReads == [zip |-> <<>>, fileNames |-> <<>>, settled |-> <<>>, order |-> <<>>,
            outcome |-> "none", contents |-> <<>>]

\* no call of the logger or of the error handler was made, and the
\* application has not installed its listeners
NoEvents == [listening |-> FALSE, call |-> "none", stack |-> <<>>,
             pushedErrors |-> 0, pushedLogs |-> 0, threw |-> FALSE]

NoStats == [totalFields |-> 0, validCitations |-> 0,
            duplicatesRemoved |-> 0, citesWithoutMetadata |-> 0]

NoResult == [citations |-> <<>>, isEmpty |-> TRUE, rawCitations |-> <<>>,
             deduplicatedCitations |-> <<>>, statistics |-> NoStats]

\* what the citation counter shows: the number of citations with the notes
\* on duplicates and on items without metadata (shown when they are not 0),
\* or an error message
CountShown(count, stats) ==
    [error |-> FALSE, count |-> count,
     duplicatesRemoved |-> stats.duplicatesRemoved,
     citesWithoutMetadata |-> stats.citesWithoutMetadata]

ErrorShown == [error |-> TRUE, count |-> 0, duplicatesRemoved |-> 0,
               citesWithoutMetadata |-> 0]

\* the state after the modules are loaded
Loaded ==
    /\ file = Docx(<<>>)
    /\ currentDocument = NoDocument
    /\ parsingState = IdleParsingState
    /\ fields = <<>>
    /\ walks = <<>>
    /\ pc = "idle"
    /\ result = NoResult
    /\ deduplicatedArray = <<>>
    /\ processedCitations = <<>>
    /\ processingStats = NoStats
    /\ currentCitations = <<>>
    /\ formattingCache = <<>>
    /\ stored = <<>>
    /\ output = [format |-> "none", text |-> <<>>, json |-> <<>>]
    /\ thrown = FALSE
    /\ awaiting = <<>>
    /\ duringParse = FALSE
    /\ extractCount = CountShown(0, NoStats)
    /\ textArea = NoOutput
    /\ currentState = "initial"
    /\ reads = NoReads
    /\ events = NoEvents

\* the user is to select one document citing one of citeLists
InitWith(citeLists) ==
    /\ Loaded
    /\ \E cites \in citeLists : pending = <<Package(cites)>>

Init ==
    /\ InitWith(CiteLists(MetaCites, MaxEntries))
    /\ selectedFormat = "data"
    /\ citeAvailable = TRUE
    /\ citeThrows = FALSE
    /\ bibliography = <<>>

InitTitles ==
    /\ InitWith(CiteLists(MetaCites, MaxEntries))
    /\ selectedFormat = "bibliography-with-counts"
    /\ citeAvailable = TRUE
    /\ citeThrows = FALSE
    /\ bibliography = <<>>

InitCluster ==
    /\ InitWith(CiteLists(ClusterCites, MaxEntries))
    /\ selectedFormat = "data"
    /\ citeAvailable = TRUE
    /\ citeThrows = FALSE
    /\ bibliography = <<>>

InitFormat ==
    /\ selectedFormat \in Formats
    /\ citeAvailable \in BOOLEAN
    /\ citeThrows \in BOOLEAN
    /\ citeThrows => citeAvailable
    /\ bibliography \in SeqsUpTo(RenderedLines, MaxLines)
    /\ bibliography # <<>> =>
          (citeAvailable /\ ~citeThrows /\ selectedFormat = "bibliography-with-counts")
    /\ Loaded
    /\ \E cites \in CiteLists(FewCites, 2) :
          /\ pending = <<Package(cites)>>
          /\ bibliography # <<>> => Len(cites) = 1

\* no file is selected
NoFiles ==
    /\ Loaded
    /\ pending = <<>>
    /\ selectedFormat = "data"
    /\ bibliography = <<>>

InitCache ==
    /\ NoFiles
    /\ citeAvailable = TRUE
    /\ citeThrows = FALSE

InitApi ==
    /\ NoFiles
    /\ citeAvailable \in BOOLEAN
    /\ citeThrows \in BOOLEAN
    /\ citeThrows => citeAvailable

InitOverlap ==
    /\ Loaded
    /\ pending \in {s \in SeqsUpTo(OverlapFiles, MaxFiles) : Len(s) >= 2}
    /\ selectedFormat = "data"
    /\ citeAvailable = TRUE
    /\ citeThrows = FALSE
    /\ bibliography = <<>>

InitExtract ==
    /\ Loaded
    /\ pending \in SeqsUpTo(SelectableFiles, MaxFiles) \ {<<>>}
    /\ selectedFormat = "data"
    /\ citeAvailable = TRUE
    /\ citeThrows = FALSE
    /\ bibliography = <<>>

\* handleFileSelect up to the first await of DocumentParser.parse:
\* resetToInitialState, the checks of the file, and parseDocument as far as
\* JSZip.loadAsync; the catch of handleFileSelect when a check fails
HandleFileSelect ==
    /\ pending # <<>>
    /\ file' = Head(pending)
    /\ pending' = Tail(pending)
    /\ duringParse' = (awaiting # <<>>)
    /\ textArea' = NoOutput
    /\ IF ~IsDocumentTypeSupported(file') \/ file'.size > MaxFileSize
       THEN /\ pc' = "idle"
            /\ currentState' = "error"
            /\ extractCount' = ErrorShown
            /\ UNCHANGED <<parsingState, awaiting>>
       ELSE /\ pc' = "parsing"
            /\ currentState' = "processing"
            /\ extractCount' = CountShown(0, NoStats)
            /\ awaiting' = Append(awaiting, file')
            /\ parsingState' = [isProcessing |-> TRUE, currentFile |-> file'.name,
                                progress |-> 10]
    /\ UNCHANGED <<reads, events,
                   currentDocument, extractorVars, processorVars, currentCitations,
                   cacheVars, rendererVars, output, thrown>>

\* the user selects a file when no parse is awaited
SelectFile ==
    /\ pc \in {"idle", "set"}
    /\ awaiting = <<>>
    /\ HandleFileSelect

\* the user selects a file while a handler awaits the parse of an earlier one
SelectFileDuringParse ==
    /\ pc \in {"idle", "parsing", "set"}
    /\ awaiting # <<>>
    /\ HandleFileSelect

\* the rest of parseDocument for the k-th of the files whose parse is
\* awaited, and the catch of handleFileSelect when it throws
ParseAwaited(k) ==
    /\ LET outcome == ParseDocument(awaiting[k]) IN
       /\ currentDocument' = IF outcome.threw THEN currentDocument ELSE outcome.document
       /\ pc' = IF outcome.threw THEN "idle" ELSE "parsed"
       /\ currentState' = IF outcome.threw THEN "error" ELSE currentState
       /\ extractCount' = IF outcome.threw THEN ErrorShown ELSE extractCount
    /\ awaiting' = SubSeq(awaiting, 1, k - 1) \o SubSeq(awaiting, k + 1, Len(awaiting))
    /\ parsingState' = ResetParsingState(parsingState)
    /\ UNCHANGED <<reads, events,
                   pending, file, extractorVars, processorVars, currentCitations,
                   cacheVars, rendererVars, output, thrown, duringParse, textArea>>

\* the parse of the only file selected completes
Parse ==
    /\ pc = "parsing"
    /\ Len(awaiting) = 1
    /\ ParseAwaited(1)

\* a parse completes after a file was selected during a parse: any of the
\* parses awaited, in whatever order they complete.  What a handler does after
\* its await runs without a break, so that no parse completes and no file is
\* selected before it has come to its end.
ParseOverlapped ==
    /\ pc \in {"idle", "parsing", "set"}
    /\ Len(awaiting) > 1 \/ pc # "parsing"
    /\ \E k \in 1..Len(awaiting) : ParseAwaited(k)

\* handleFileSelect, line 873: extractFields(document.contentFiles, document.type)
ExtractDocumentFields ==
    /\ pc = "parsed"
    /\ pc' = "ready"
    /\ fields' = ExtractFields(currentDocument.contentFiles, currentDocument.type)
    /\ walks' = WalksOfFiles(currentDocument.contentFiles, currentDocument.type)
    /\ UNCHANGED <<reads, events,
                   pending, file, parserVars, processorVars, currentCitations,
                   cacheVars, rendererVars, output, thrown,
                   handlerVars, uiVars>>

\* CitationProcessor.processFields(fields).  The primed variables stand for
\* the locals of the same name: deduplicatedArray' is the array of step 2,
\* processedCitations' the metadataItems of step 3.
ProcessFields ==
    /\ pc = "ready"
    /\ pc' = "processed"
    /\ LET parsedCitations == ParseFields(fields)
           stats1 == [NoStats EXCEPT !.totalFields = Len(fields),
                                     !.validCitations = Len(parsedCitations)]
       IN  IF Len(parsedCitations) = 0
           THEN /\ result' = [NoResult EXCEPT !.statistics = stats1]
                /\ processingStats' = stats1
                /\ UNCHANGED <<deduplicatedArray, processedCitations>>
           ELSE /\ deduplicatedArray' =
                       PerformDeduplication(
                           NormalizeUris(DeduplicationArray(parsedCitations)))
                /\ processedCitations' = ExtractMetadata(ToResult(deduplicatedArray'))
                /\ processingStats' = [stats1 EXCEPT
                       !.duplicatesRemoved =
                           Len(parsedCitations) - Len(ToResult(deduplicatedArray')),
                       !.citesWithoutMetadata =
                           Len(ToResult(deduplicatedArray')) - Len(processedCitations')]
                /\ result' = [citations |-> processedCitations',
                              isEmpty |-> (Len(processedCitations') = 0),
                              rawCitations |-> parsedCitations,
                              deduplicatedCitations |-> ToResult(deduplicatedArray'),
                              statistics |-> processingStats']
    /\ UNCHANGED <<reads, events,
                   pending, file, parserVars, extractorVars, currentCitations,
                   cacheVars, rendererVars, output, thrown,
                   handlerVars, uiVars>>

LimitCacheSize_DropsNewest(cache) ==
    IF Len(cache) > MaxCacheSize THEN SubSeq(cache, 1, Len(cache) - 1) ELSE cache

\* format, lines 423-426: formattingCache.keys().next().value is the key
\* that was set first among those the Map holds
LimitCacheSize(cache) ==
    IF Len(cache) > MaxCacheSize THEN Tail(cache) ELSE cache

CacheHas(cache, key) == \E k \in 1..Len(cache) : cache[k].key = key

CacheGet(cache, key) == cache[CHOOSE k \in 1..Len(cache) : cache[k].key = key].value

\* OutputFormatter.format(format, citations), lines 381-451, no options: the
\* cache afterwards, and the value returned unless the call threw
FormatCall(cache, citations, format, available, throws, lines) ==
    LET cacheKey == GenerateCacheKey(citations, format) IN
    IF CacheHas(cache, cacheKey)
    THEN [cache |-> cache, out |-> CacheGet(cache, cacheKey), threw |-> FALSE,
          set |-> <<>>]
    ELSE IF Len(citations) = 0
    THEN [cache |-> cache, out |-> NoOutput, threw |-> FALSE, set |-> <<>>]
    ELSE IF available /\ ~throws
    THEN LET new == Append(cache, [key   |-> cacheKey,
                                   value |-> FormatWithCitationJs(citations, format,
                                                                  lines)])
         IN  [cache |-> LimitCacheSize(new),
              out   |-> new[Len(new)].value,
              threw |-> FALSE,
              set   |-> <<cacheKey>>]
    ELSE IF FallbackThrows(citations, format)
    THEN [cache |-> cache, out |-> NoOutput, threw |-> TRUE, set |-> <<>>]
    ELSE LET new == Append(cache, [key   |-> cacheKey,
                                   value |-> FormatFallback(citations, format)])
         IN  [cache |-> LimitCacheSize(new),
              out   |-> new[Len(new)].value,
              threw |-> FALSE,
              set   |-> <<cacheKey>>]

\* the keys stored so far, after a call of format: the key of
\* formattingCache.set, line 420, when the call reached it
StoredBy(call, history) == history \o call.set

\* handleFileSelect, lines 885-893: updateProcessingResults, which shows
\* format('data') of the citations set before when the new result has
\* citations and swallows what it throws, and then
\* OutputFormatter.setCitations(citationResult.citations)
SetCitations ==
    /\ pc = "processed"
    /\ pc' = "set"
    /\ LET call == FormatCall(formattingCache, currentCitations, "data",
                              citeAvailable, citeThrows, bibliography)
       IN  IF Len(result.citations) > 0
           THEN /\ formattingCache' = call.cache
                /\ stored' = StoredBy(call, stored)
                /\ textArea' = IF call.threw THEN textArea
                               ELSE [text |-> call.out.text, json |-> call.out.json]
           ELSE UNCHANGED <<cacheVars, textArea>>
    /\ extractCount' = CountShown(Len(result.citations), result.statistics)
    /\ currentCitations' = result.citations
    /\ currentState' = "completed"
    /\ UNCHANGED <<reads, events,
                   pending, file, parserVars, extractorVars, processorVars,
                   rendererVars, output, thrown, handlerVars>>

\* handleFormatSelect: OutputFormatter.format(selectedFormat) on the current
\* citations
FormatRendered(lines) ==
    /\ pc = "set"
    /\ currentState \in {"results-available", "completed"}
    /\ LET call == FormatCall(formattingCache, currentCitations, selectedFormat,
                              citeAvailable, citeThrows, lines)
       IN  /\ formattingCache' = call.cache
           /\ stored' = StoredBy(call, stored)
           /\ thrown' = call.threw
           /\ output' = IF call.threw THEN output
                        ELSE call.out @@ [format |-> selectedFormat]
           /\ textArea' = IF call.threw THEN textArea
                          ELSE [text |-> call.out.text, json |-> call.out.json]
    /\ UNCHANGED <<reads, events,
                   pending, file, parserVars, extractorVars, pc, processorVars,
                   currentCitations, rendererVars, handlerVars, extractCount,
                   currentState>>

\* the format is selected, and the library renders the lines `bibliography`
Format == FormatRendered(bibliography)

\* what a library renders that gives one line for each record, the record's title
TitleLines(citations) ==
    [k \in 1..Len(citations) |->
        IF "title" \in DOMAIN citations[k] THEN citations[k]["title"] ELSE <<>>]

\* the format is selected, and the library renders the titles of the records
\* it is given; for the counts table these are the records of addCountsToTitle
FormatTitles ==
    FormatRendered(TitleLines(IF selectedFormat = "bibliography-with-counts"
                              THEN AddCountsToTitle(currentCitations)
                              ELSE currentCitations))

\* OutputFormatter.format(format, citations) called with a list of its own
FormatCitations(format, citations) ==
    /\ LET call == FormatCall(formattingCache, citations, format, citeAvailable,
                              citeThrows, bibliography)
       IN  /\ formattingCache' = call.cache
           /\ stored' = StoredBy(call, stored)
           /\ thrown' = call.threw
           /\ output' = IF call.threw THEN output
                        ELSE call.out @@ [format |-> format]
    /\ UNCHANGED <<reads, events,
                   pending, file, parserVars, extractorVars, pc, processorVars,
                   currentCitations, rendererVars, handlerVars, uiVars>>

\* a caller that formats many lists: the one it formats next is one of the
\* two it formatted first, one of the two it formatted last or the next new
\* one, and it stops after MaxStored results were stored
FormatNumbered ==
    \E n \in {1, 2, Len(stored) - 1, Len(stored), Len(stored) + 1} :
        /\ n \in 1..MaxStored
        /\ Len(stored) < MaxStored
              \/ CacheHas(formattingCache, GenerateCacheKey(NumberedList(n), "data"))
        /\ FormatCitations("data", NumberedList(n))

\* a caller that formats a list of its own, or gives none (null, undefined):
\* citations || currentCitations
FormatGiven ==
    \E format \in ApiFormats, citations \in ApiArguments :
        FormatCitations(format, IF citations.isArray THEN citations.items
                                ELSE currentCitations)

SetCitationsTo_ClearsCache ==
    \E citations \in ApiArguments :
        /\ currentCitations' = IF citations.isArray THEN citations.items ELSE <<>>
        /\ formattingCache' = <<>>
        /\ UNCHANGED <<reads, events,
                       pending, file, parserVars, extractorVars, pc, processorVars,
                       stored, rendererVars, output, thrown, handlerVars, uiVars>>

\* OutputFormatter.setCitations(citations), lines 349-360
SetCitationsTo ==
    \E citations \in ApiArguments :
        /\ currentCitations' = IF citations.isArray THEN citations.items ELSE <<>>
        /\ UNCHANGED <<reads, events,
                       pending, file, parserVars, extractorVars, pc, processorVars,
                       cacheVars, rendererVars, output, thrown, handlerVars,
                       uiVars>>

\* the rendering library arrives: the global Cite that isCitationJsAvailable
\* tests at every call is defined from now on, and works
LoadRenderer ==
    /\ ~citeAvailable \/ citeThrows
    /\ citeAvailable' = TRUE
    /\ citeThrows' = FALSE
    /\ UNCHANGED <<reads, events,
                   pending, file, parserVars, extractorVars, pc, processorVars,
                   currentCitations, cacheVars, selectedFormat, bibliography,
                   output, thrown, handlerVars, uiVars>>

Next ==
    \/ SelectFile
    \/ Parse
    \/ ExtractDocumentFields
    \/ ProcessFields
    \/ SetCitations
    \/ Format

Spec == Init /\ [][Next]_vars

SpecCluster == InitCluster /\ [][Next]_vars

SpecFormat == InitFormat /\ [][Next]_vars

SpecExtract == InitExtract /\ [][Next]_vars

\* the formatter called through its interface by a caller that formats many lists
NextCache ==
    \/ FormatNumbered

SpecCache == InitCache /\ [][NextCache]_vars

\* the page with a library that renders the titles of the records
NextTitles ==
    \/ SelectFile
    \/ Parse
    \/ ExtractDocumentFields
    \/ ProcessFields
    \/ SetCitations
    \/ FormatTitles

SpecTitles == InitTitles /\ [][NextTitles]_vars

\* the page with a user who does not wait for a parse before selecting again
NextOverlap ==
    \/ SelectFile
    \/ SelectFileDuringParse
    \/ Parse
    \/ ParseOverlapped
    \/ ExtractDocumentFields
    \/ ProcessFields
    \/ SetCitations
    \/ Format

SpecOverlap == InitOverlap /\ [][NextOverlap]_vars

\* the formatter called through its interface while the library is loading
NextApi ==
    \/ SetCitationsTo
    \/ FormatGiven
    \/ LoadRenderer

SpecApi == InitApi /\ [][NextApi]_vars

\* ------------------------------------------------- reference definitions
\* the items of one processFields call, as parsed
Raw == result.rawCitations

Processed == pc # "ready" /\ Len(Raw) > 0

SharesUri(i, j) == \E u \in Uris : Contains(Raw[i].uris, u) /\ Contains(Raw[j].uris, u)

\* the entries reachable from the set S by chains of shared identifiers
RECURSIVE Reach(_)
Reach(S) ==
    LET more == S \cup {j \in 1..Len(Raw) : \E i \in S : SharesUri(i, j)}
    IN  IF more = S THEN S ELSE Reach(more)

Connected(i, j) == j \in Reach({i})

\* the member positions of a cluster
Members(e) == IF e.indices # <<>> THEN {e.indices[k] : k \in 1..Len(e.indices)}
              ELSE {e.index}

ResultMembers(d) == {d.indices[k] : k \in 1..Len(d.indices)}

RECURSIVE SumCounts(_)
SumCounts(s) == IF s = <<>> THEN 0 ELSE s[1].count + SumCounts(Tail(s))

Min(S) == CHOOSE x \in S : \A y \in S : x <= y

\* a title with at least one character that is not white space
HasTitle(rec) ==
    /\ "title" \in DOMAIN rec
    /\ \E k \in 1..Len(rec["title"]) : ~IsSpace(rec["title"][k])

\* ------------------------------------------------------------------ claims

\* C1: two entries are in the same cluster exactly when their uris lists are
\* connected, directly or through a chain of entries each sharing an
\* identifier with the next; in the list deduplicateCitations returns, the
\* members of one cluster are connected and connected entries are never
\* split over two clusters.
C1_TransitiveClusters ==
    Processed =>
        LET reach == [i \in 1..Len(Raw) |-> Reach({i})] IN
        /\ \A i, j \in 1..Len(Raw) :
              (j \in reach[i]) <=>
                  \E k \in 1..Len(deduplicatedArray) :
                      {i, j} \subseteq Members(deduplicatedArray[k])
        /\ \A k, l \in 1..Len(result.deduplicatedCitations) :
              \A i \in ResultMembers(result.deduplicatedCitations[k]) :
                  \A j \in ResultMembers(result.deduplicatedCitations[l]) :
                      (j \in reach[i]) <=> (k = l)

\* C1 witness: two entries that share no identifier directly sit in one cluster
C1_Witness ==
    /\ Processed
    /\ \E i, j \in 1..Len(Raw) :
          /\ ~SharesUri(i, j)
          /\ Connected(i, j)
          /\ \E k \in 1..Len(deduplicatedArray) :
                /\ {i, j} \subseteq Members(deduplicatedArray[k])
                /\ deduplicatedArray[k].count = 3

\* C2: the canonical record of every cluster is the itemData of its earliest
\* member that has itemData (whatever that member's position in the cluster),
\* and is null only if no member has itemData.
C2_CanonicalIsFirstWithItemData ==
    Processed =>
        \A k \in 1..Len(deduplicatedArray) :
            LET e        == deduplicatedArray[k]
                withData == {i \in Members(e) : Raw[i].itemData # Null}
            IN  IF withData = {} THEN e.item = Null
                ELSE /\ e.item # Null
                     /\ LET rec == Raw[Min(withData)].itemData[1]
                        IN  \A f \in DOMAIN rec \ {"note"} :
                                f \in DOMAIN e.item[1] /\ e.item[1][f] = rec[f]

\* C3: the occurrence counts of the clusters deduplicateCitations returns add
\* up to the number of entries it was given.
C3_CountsSumToEntries ==
    Processed => SumCounts(result.deduplicatedCitations) = Len(Raw)

\* C4: every non-null canonical record, also that of an entry without
\* identifiers, has a note that is "Times cited: N" for the cluster's count N,
\* followed by a line break and the earlier note when there was one, and is
\* otherwise the record as parsed.
C4_NoteAnnotatedOnce ==
    Processed =>
        \A k \in 1..Len(deduplicatedArray) :
            LET e == deduplicatedArray[k] IN
            e.item # Null =>
                LET before == Raw[e.index].itemData[1]
                    after  == e.item[1]
                    old    == IF "note" \in DOMAIN before THEN before["note"] ELSE <<>>
                    head   == <<"TC">> \o NumberToString(e.count)
                IN  /\ DOMAIN after = DOMAIN before \cup {"note"}
                    /\ after["note"] = IF old = <<>> THEN head
                                       ELSE head \o <<"NL">> \o old
                    /\ \A f \in DOMAIN before \ {"note"} : after[f] = before[f]

\* C5: the clusters of performDeduplication partition the entries, and an
\* entry without uris is a cluster of its own with count 1.
C5_ClustersPartitionEntries ==
    Processed =>
        /\ \A k, l \in 1..Len(deduplicatedArray) :
              k # l => Members(deduplicatedArray[k]) \cap Members(deduplicatedArray[l]) = {}
        /\ UNION {Members(deduplicatedArray[k]) : k \in 1..Len(deduplicatedArray)}
              = 1..Len(Raw)
        /\ \A i \in 1..Len(Raw) :
              Raw[i].uris = <<>> =>
                  \E k \in 1..Len(deduplicatedArray) :
                      /\ deduplicatedArray[k].index = i
                      /\ deduplicatedArray[k].count = 1
                      /\ Members(deduplicatedArray[k]) = {i}

\* C5 witness: an entry without uris next to a cluster of two entries
C5_Witness ==
    /\ Processed
    /\ \E i \in 1..Len(Raw) : Raw[i].uris = <<>>
    /\ \E k \in 1..Len(deduplicatedArray) : deduplicatedArray[k].count = 2

\* C6: processFields returns, in cluster order, exactly the records of the
\* clusters whose record is non-null and has a title that is not blank.
C6_CitationsAreTitledRecords ==
    Processed =>
        LET ok == SelectSeq(deduplicatedArray,
                      LAMBDA e : e.item # Null /\ HasTitle(e.item[1]))
        IN  result.citations = [k \in 1..Len(ok) |-> ok[k].item[1]]

\* C6 witness: one cluster is kept and one with a blank title is dropped
C6_Witness ==
    /\ Processed
    /\ Len(result.citations) > 0
    /\ \E k \in 1..Len(deduplicatedArray) :
          /\ deduplicatedArray[k].item # Null
          /\ "title" \in DOMAIN deduplicatedArray[k].item[1]
          /\ ~HasTitle(deduplicatedArray[k].item[1])

\* C7: citesWithoutMetadata counts the clusters the metadata filter rejects:
\* those whose record is null and those whose record has no non-blank title.
C7_CitesWithoutMetadataCountsRejected ==
    Processed =>
        processingStats.citesWithoutMetadata =
            Cardinality({k \in 1..Len(deduplicatedArray) :
                \/ deduplicatedArray[k].item = Null
                \/ ~HasTitle(deduplicatedArray[k].item[1])})

\* C8: a cluster whose canonical record is null is still in the list
\* deduplicateCitations returns.
C8_NullClustersRetained ==
    Processed =>
        \A k \in 1..Len(deduplicatedArray) :
            deduplicatedArray[k].item = Null =>
                \E d \in 1..Len(result.deduplicatedCitations) :
                    ResultMembers(result.deduplicatedCitations[d])
                        = Members(deduplicatedArray[k])

\* the text split at its line breaks
RECURSIVE SplitLines(_, _)
SplitLines(text, cur) ==
    IF text = <<>> THEN <<cur>>
    ELSE IF text[1] = "NL" THEN <<cur>> \o SplitLines(Tail(text), <<>>)
    ELSE SplitLines(Tail(text), Append(cur, text[1]))

\* the first position of a "[N citations] " marker in a line, 0 without one
MarkerStart(line) ==
    LET starts == {p \in 1..Len(line) :
                      /\ line[p] = "["
                      /\ \E q \in (p + 2)..Len(line) :
                            /\ line[q] = "CIT"
                            /\ \A m \in (p + 1)..(q - 1) : line[m] \in Digit}
    IN  IF starts = {} THEN 0 ELSE Min(starts)

MarkerEnd(line) ==
    Min({q \in (MarkerStart(line) + 2)..Len(line) : line[q] = "CIT"})

MarkerDigits(line) == SubSeq(line, MarkerStart(line) + 1, MarkerEnd(line) - 1)

LineCount(line) == IF MarkerStart(line) = 0 THEN 0 ELSE ParseInt(MarkerDigits(line))

LineRow(line) ==
    MarkerDigits(line) \o <<"TAB">> \o SubSeq(line, 1, MarkerStart(line) - 1)
        \o SubSeq(line, MarkerEnd(line) + 1, Len(line))

IsBlank(line) == \A k \in 1..Len(line) : IsSpace(line[k])

\* C9: the records read back from the 'data' output are the current citations
\* field for field, except that the note has lost every "Times cited: N"
\* annotation and is left out when nothing else was in it.
C9_DataOutputStripsCounts ==
    (pc = "set" /\ output.format = "data" /\ Len(currentCitations) > 0) =>
        LET back == JsonParse(output.json) IN
        /\ Len(back) = Len(currentCitations)
        /\ \A k \in 1..Len(back) :
              /\ DOMAIN back[k] \subseteq DOMAIN currentCitations[k]
              /\ \A f \in DOMAIN currentCitations[k] \ {"note"} :
                    f \in DOMAIN back[k] /\ back[k][f] = currentCitations[k][f]
              /\ "note" \in DOMAIN back[k] =>
                    /\ back[k]["note"] # <<>>
                    /\ ~Contains(back[k]["note"], "TC")

\* C10: the counts table is the header and then one row "N<TAB>line without
\* its marker" for every rendered line that is not blank and whose count N is
\* not 0, a line without marker counting as 0.
C10_CountsTableRows ==
    (pc = "set" /\ output.format = "bibliography-with-counts" /\ citeAvailable
        /\ Len(currentCitations) > 0) =>
        /\ Len(output.text) >= Len(Header)
        /\ SubSeq(output.text, 1, Len(Header)) = Header
        /\ LET rest == SubSeq(output.text, Len(Header) + 1, Len(output.text))
               rows == IF rest = <<>> THEN <<>> ELSE SplitLines(rest, <<>>)
               kept == {k \in 1..Len(bibliography) :
                           /\ ~IsBlank(bibliography[k])
                           /\ LineCount(bibliography[k]) # 0}
           IN  /\ Len(rows) = Cardinality(kept)
               /\ \A i \in 1..Len(rows) :
                     Cardinality({j \in 1..Len(rows) : rows[j] = rows[i]})
                       = Cardinality({k \in kept : LineRow(bibliography[k]) = rows[i]})

\* the rows of a counts table below its header
TableRows(text) ==
    LET rest == SubSeq(text, Len(Header) + 1, Len(text))
    IN  IF rest = <<>> THEN <<>> ELSE SplitLines(rest, <<>>)

\* the number a row starts with
RowCount(row) == ParseInt(SubSeq(row, 1, DigitRun(row, 1)))

CountsTableShown ==
    /\ pc = "set"
    /\ output.format = "bibliography-with-counts"
    /\ citeAvailable /\ ~citeThrows
    /\ Len(currentCitations) > 0

\* C11: in the counts table every row's count, read as a number, is at least
\* the count of every row below it.
C11_RowsByDescendingCount ==
    CountsTableShown =>
        LET rows == TableRows(output.text) IN
        \A i, j \in 1..Len(rows) : i < j => RowCount(rows[i]) >= RowCount(rows[j])

\* C11 witness: the renderer returns "[3 citations] A" before
\* "[10 citations] A" and the table has the row of 10 first
C11_Witness ==
    /\ CountsTableShown
    /\ bibliography = << <<"[", "3", "CIT", "A">>, <<"[", "1", "0", "CIT", "A">> >>
    /\ TableRows(output.text) = << <<"1", "0", "TAB", "A">>, <<"3", "TAB", "A">> >>

\* the formatter has nothing but its fallback
Degraded == ~citeAvailable \/ citeThrows

\* C12: when the rendering library is missing or throws, format on records
\* of any shape does not throw and returns what formatFallback returns.
C12_FallbackNeverThrows ==
    (pc = "set" /\ Degraded /\ Len(currentCitations) > 0) =>
        /\ ~thrown
        /\ output.format # "none" =>
              [text |-> output.text, json |-> output.json]
                  = FormatFallback(currentCitations, selectedFormat)

\* the authors of a record as the listing shows them
ListedAuthors(rec) ==
    IF ~Truthy(rec, "author") THEN <<"Unknown Author">>
    ELSE IF IsNameList(rec["author"])
    THEN JoinCommaSpace([k \in 1..Len(rec["author"]) |-> NameText(rec["author"][k])])
    ELSE rec["author"]

\* the listing "{i}. {authors}. {title}." of the records, one line each
NumberedListing(recs) ==
    JoinLines([i \in 1..Len(recs) |->
        NumberToString(i) \o <<".", " ">> \o ListedAuthors(recs[i]) \o <<".", " ">>
            \o (IF Truthy(recs[i], "title") THEN recs[i]["title"]
                ELSE <<"Unknown Title">>)
            \o <<".">>])

\* C13: without the rendering library, what format returns for bibliography,
\* bibtex, ris and bibliography-with-counts is the numbered listing of the
\* records in input order.
C13_FallbackIsNumberedListing ==
    (pc = "set" /\ ~citeAvailable /\ Len(currentCitations) > 0 /\ ~thrown
        /\ output.format \in {"bibliography", "bibtex", "ris",
                              "bibliography-with-counts"}) =>
        /\ output.text = NumberedListing(currentCitations)
        /\ output.json = <<>>

\* C14: every call of format returns the rendering of the list it was called
\* for, whatever the cache holds from calls for other lists.
C14_CacheHitOnlyForSameInput ==
    [][Format =>
        (thrown' \/
         [text |-> output'.text, json |-> output'.json]
            = FormatCall(<<>>, currentCitations, selectedFormat, citeAvailable,
                         citeThrows, bibliography).out)]_vars

\* processFields has returned for the fields extracted last
FieldsProcessed == pc \in {"processed", "set"}

\* the text of a field is a citation field: the prefix and a payload that
\* parses and has a citationItems list
IsCitationField(field) ==
    \/ Len(field) = 1 /\ field[1].kind = "csl"
    \/ Len(field) = 2 /\ field[1].kind = "head" /\ field[2].kind = "tail"

\* C15: the entries parseFields returns are, for every citation field in
\* order, its citation items in order, and nothing for any other field; their
\* (fieldIndex, citeIndex) pairs increase strictly.
C15_ParseFieldsConcatenates ==
    FieldsProcessed =>
        /\ \A k \in 1..Len(Raw) : Raw[k].fieldIndex \in 1..Len(fields)
        /\ \A i \in 1..Len(fields) :
              LET entries == SelectSeq(Raw, LAMBDA e : e.fieldIndex = i) IN
              IF IsCitationField(fields[i])
              THEN LET items == fields[i][1].items IN
                   entries = [c \in 1..Len(items) |->
                                [uris       |-> items[c].uris,
                                 itemData   |-> items[c].itemData,
                                 fieldIndex |-> i,
                                 citeIndex  |-> c]]
              ELSE entries = <<>>
        /\ \A k \in 1..(Len(Raw) - 1) :
              \/ Raw[k].fieldIndex < Raw[k + 1].fieldIndex
              \/ /\ Raw[k].fieldIndex = Raw[k + 1].fieldIndex
                 /\ Raw[k].citeIndex < Raw[k + 1].citeIndex

\* C15 witness: fields that are no citation fields before, between and after
\* two citation fields, and the entries of both
C15_Witness ==
    /\ FieldsProcessed
    /\ Len(Raw) = 3
    /\ \E i, j, k, l \in 1..Len(fields) :
          /\ i < j /\ j < k /\ k < l
          /\ ~IsCitationField(fields[i]) /\ IsCitationField(fields[j])
          /\ ~IsCitationField(fields[k]) /\ IsCitationField(fields[l])
    /\ ~IsCitationField(fields[Len(fields)])

\* extractFields has returned for the current document
FieldsExtracted == pc \in {"ready", "processed", "set"}

\* C16: extractFields returns the fields of the content files that parse, file
\* after file, as if the files that do not parse were not there.
C16_BrokenFilesSkipped ==
    FieldsExtracted =>
        fields = ExtractFrom(SelectSeq(currentDocument.contentFiles,
                                       LAMBDA f : f.parses),
                             currentDocument.type)

\* C16 witness: a file that does not parse between two files with one field each
C16_Witness ==
    /\ FieldsExtracted
    /\ Len(currentDocument.contentFiles) = 3
    /\ currentDocument.contentFiles[1].parses
    /\ ~currentDocument.contentFiles[2].parses
    /\ currentDocument.contentFiles[3].parses
    /\ Len(fields) = 2

\* C17: when no field yields an entry, and when no cluster has a record with
\* a title, processFields returns citations = [] and isEmpty = true; isEmpty
\* is true for no other result.
C17_EmptyResultIsValid ==
    FieldsProcessed =>
        /\ ( \/ result.statistics.validCitations = 0
             \/ \A k \in 1..Len(deduplicatedArray) :
                    \/ deduplicatedArray[k].item = Null
                    \/ ~HasTitle(deduplicatedArray[k].item[1]) )
              => (result.citations = <<>> /\ result.isEmpty)
        /\ result.isEmpty <=> (Len(result.citations) = 0)

\* C17 witness: entries with records, none of them with a title
C17_Witness ==
    /\ FieldsProcessed
    /\ Len(Raw) > 1
    /\ \E k \in 1..Len(deduplicatedArray) : deduplicatedArray[k].item # Null
    /\ result.citations = <<>>
    /\ result.isEmpty

\* the names of the archive's entries
EntryNames(f) == {f.files[k].name : k \in 1..Len(f.files)}

\* the content files of the variant the archive is of
VariantFiles(f) ==
    IF "word/document.xml" \in EntryNames(f)
    THEN {"word/document.xml", "word/footnotes.xml", "word/endnotes.xml"}
    ELSE IF "content.xml" \in EntryNames(f) THEN {"content.xml"}
    ELSE {}

\* the package is invalid or empty, of no recognized variant, or without any
\* content file of its variant
Unusable(f) ==
    \/ f.zip # "ok"
    \/ EntryNames(f) = {}
    \/ VariantFiles(f) = {}
    \/ VariantFiles(f) \cap EntryNames(f) = {}

\* C18: parsing an unusable package rejects, leaves currentDocument as it
\* was and the parsing state at not processing with progress 0.
C18_UnusablePackageAborts ==
    [][(Parse /\ Unusable(file)) =>
        /\ pc' = "idle"
        /\ currentDocument' = currentDocument
        /\ parsingState' = [isProcessing |-> FALSE, currentFile |-> "none",
                            progress |-> 0]]_vars

\* C18 witness: a package of no recognized variant was rejected after a
\* document had been parsed
C18_Witness ==
    /\ pc = "idle"
    /\ file.zip = "ok" /\ EntryNames(file) = {"mimetype"}
    /\ currentDocument.type = "OfficeOpenXML"
    /\ parsingState.progress = 0 /\ ~parsingState.isProcessing

\* every record is annotated with a count of 1 and no two entries share an
\* identifier
AlreadyDeduplicated ==
    /\ \A i \in 1..Len(Raw) :
          /\ Raw[i].itemData # Null
          /\ "note" \in DOMAIN Raw[i].itemData[1]
          /\ Len(Raw[i].itemData[1]["note"]) >= 2
          /\ SubSeq(Raw[i].itemData[1]["note"], 1, 2) = <<"TC", "1">>
    /\ \A i, j \in 1..Len(Raw) : i # j => ~SharesUri(i, j)

\* C19: the deduplication of a list that is already deduplicated and
\* annotated returns its records as they are.
C19_DeduplicationIdempotent ==
    (FieldsProcessed /\ Len(Raw) > 0 /\ AlreadyDeduplicated) =>
        /\ Len(result.deduplicatedCitations) = Len(Raw)
        /\ \A k \in 1..Len(Raw) :
              result.deduplicatedCitations[k].itemData = Raw[k].itemData

\* the begin markers of the content files extractFields walks from, in order:
\* the nodes around each and its position among them
RECURSIVE StartsOf(_)
StartsOf(paragraphs) ==
    IF paragraphs = <<>> THEN <<>>
    ELSE LET starts == ComplexFieldStarts(paragraphs[1])
         IN  [k \in 1..Len(starts) |-> [nodes |-> paragraphs[1], r |-> starts[k]]]
                \o StartsOf(Tail(paragraphs))

RECURSIVE StartsOfFiles(_)
StartsOfFiles(contentFiles) ==
    IF contentFiles = <<>> THEN <<>>
    ELSE (IF contentFiles[1].parses THEN StartsOf(contentFiles[1].paragraphs) ELSE <<>>)
            \o StartsOfFiles(Tail(contentFiles))

\* the instruction text of the nodes lo..hi
RECURSIVE InstrOf(_, _, _)
InstrOf(nodes, lo, hi) ==
    IF lo > hi THEN <<>>
    ELSE IF lo = hi THEN nodes[lo].instr
    ELSE LET mid == (lo + hi) \div 2
         IN  InstrOf(nodes, lo, mid) \o InstrOf(nodes, mid + 1, hi)

\* C20: each sibling walk makes at most 1000 passes; a walk that meets no end
\* marker in the 1000 nodes after its begin marker returns the trimmed
\* instruction text of these nodes and logs the warning; there is a walk for
\* every begin marker, and the fields are the non-empty texts of the walks.
C20_WalkCeiling ==
    (FieldsExtracted /\ currentDocument.type = "OfficeOpenXML") =>
        LET starts == StartsOfFiles(currentDocument.contentFiles) IN
        /\ Len(walks) = Len(starts)
        /\ \A k \in 1..Len(walks) :
              LET nodes == starts[k].nodes
                  r     == starts[k].r
              IN  /\ walks[k].iterationCount <= MaxIterations
                  /\ ( /\ Len(nodes) - r >= MaxIterations
                       /\ \A m \in (r + 1)..(r + MaxIterations) : ~nodes[m].end )
                       => /\ walks[k].content =
                                TrimChunks(InstrOf(nodes, r + 1, r + MaxIterations))
                          /\ walks[k].warned
        /\ LET pushed == SelectSeq(walks, LAMBDA w : w.content # <<>>)
           IN  fields = [k \in 1..Len(pushed) |-> pushed[k].content]

\* C20 witness: a walk stopped by the ceiling with part of the field's text,
\* and the field of the next begin marker extracted after it
C20_Witness ==
    /\ FieldsExtracted
    /\ Len(walks) = 2
    /\ walks[1].iterationCount = MaxIterations
    /\ walks[1].warned
    /\ walks[1].content # <<>> /\ walks[1].content[1].kind = "head"
    /\ ~walks[2].warned
    /\ Len(fields) = 2 /\ fields[2][1].kind = "csl"

\* ---------------------------------------------------------------------
\* DocumentParser: extractMultipleFiles, the reads of the content files
\* ---------------------------------------------------------------------

ContentNames == {"word/document.xml", "word/footnotes.xml", "word/endnotes.xml"}

ReadContents == {MixedContent, BrokenContent, BlankContent}

\* the entries of an archive: content files under different names
DistinctNames(files) ==
    \A j, k \in 1..Len(files) : files[j].name = files[k].name => j = k

\* archives of a .docx document: content files in every archive order
ReadArchives ==
    { Docx(files) : files \in
        { fs \in UNION { [1..n -> [name : ContentNames, content : ReadContents]]
                         : n \in 1..Cardinality(ContentNames) } :
            DistinctNames(fs) /\ Contains([k \in 1..Len(fs) |-> fs[k].name],
                                          "word/document.xml") } }

\* zip.file(fileName): the entries of that name
ZipFile(zip, fileName) == SelectSeq(zip.files, LAMBDA f : f.name = fileName)

NotSettled == [state |-> "pending", value |-> BlankContent]

\* extractXmlContent, lines 168-200, up to its await: the promise it returns,
\* rejected at once when the archive has no such entry
ExtractXmlContentStart(zip, fileName) ==
    IF ZipFile(zip, fileName) = <<>>
    THEN [state |-> "rejected", value |-> BlankContent]
    ELSE NotSettled

\* extractXmlContent after file.async('string') delivered content
ExtractXmlContentEnd(content) ==
    IF content.empty
    THEN [state |-> "rejected", value |-> BlankContent]
    ELSE [state |-> "fulfilled", value |-> content]

\* Promise.all over the promises: pending while none is rejected and one is
\* pending
AllOutcome(settled) ==
    IF \E i \in 1..Len(settled) : settled[i].state = "rejected" THEN "rejected"
    ELSE IF \E i \in 1..Len(settled) : settled[i].state = "pending" THEN "pending"
    ELSE "fulfilled"

Gathered_InCompletionOrder(settled, order) ==
    [i \in 1..Len(order) |-> settled[order[i]].value]

\* Promise.all: the array it is fulfilled with, the value of promise i at i
Gathered(settled, order) == [i \in 1..Len(settled) |-> settled[i].value]

\* extractMultipleFiles(zip, fileNames), lines 212-214: the reads are started,
\* one for each name getFilesToExtract gave, and the call awaits them
ExtractMultipleFiles ==
    /\ reads.outcome = "none"
    /\ \E zip \in ReadArchives :
        LET filesToExtract == GetFilesToExtract(DetectDocumentType(zip), zip)
            fileNames == [k \in 1..Len(filesToExtract) |-> filesToExtract[k].name]
        IN  reads' = [zip       |-> zip,
                      fileNames |-> fileNames,
                      settled   |-> [k \in 1..Len(fileNames) |->
                                        ExtractXmlContentStart(zip, fileNames[k])],
                      order     |-> <<>>,
                      outcome   |-> "pending",
                      contents  |-> <<>>]
    /\ UNCHANGED <<pageVars, events>>

\* the read of fileNames[i] completes: extractXmlContent goes on after its
\* await and settles its promise
CompleteRead(i) ==
    /\ reads.outcome \in {"pending", "rejected"}
    /\ i \in 1..Len(reads.settled)
    /\ reads.settled[i].state = "pending"
    /\ reads' = [reads EXCEPT
            !.settled[i] = ExtractXmlContentEnd(ZipFile(reads.zip, reads.fileNames[i])[1].content),
            !.order = Append(@, i)]
    /\ UNCHANGED <<pageVars, events>>

\* extractMultipleFiles goes on after await Promise.all, lines 214-226:
\* it returns the contents, or throws the error of the read that failed
ResumeExtractMultipleFiles ==
    /\ reads.outcome = "pending"
    /\ AllOutcome(reads.settled) # "pending"
    /\ reads' = [reads EXCEPT
            !.outcome = AllOutcome(reads.settled),
            !.contents = IF AllOutcome(reads.settled) = "fulfilled"
                         THEN Gathered(reads.settled, reads.order) ELSE <<>>]
    /\ UNCHANGED <<pageVars, events>>

NextReads ==
    \/ ExtractMultipleFiles
    \/ \E i \in 1..Cardinality(ContentNames) : CompleteRead(i)
    \/ ResumeExtractMultipleFiles

SpecReads == InitCache /\ [][NextReads]_vars

\* ---------------------------------------------------------------------
\* the logger, the error handler and the listeners of the application
\* ---------------------------------------------------------------------

\* the frames the call stack holds before a further call throws RangeError
MaxStack == 5

\* configuration: LOG_LEVELS, DEBUG.ENABLED, DEBUG.VERBOSE_LOGGING,
\* DEBUG.STORE_ERRORS
LogLevels == [error |-> 0, warn |-> 1, info |-> 2, debug |-> 3]
DebugEnabled == TRUE
VerboseLogging == FALSE
StoreErrors == TRUE

Levels == DOMAIN LogLevels

\* shouldLog, lines 158-170:  levels[level.toUpperCase()] || levels.INFO
ShouldLog(level) ==
    LET currentLevel == IF DebugEnabled
                        THEN (IF VerboseLogging THEN LogLevels["debug"]
                                                ELSE LogLevels["info"])
                        ELSE LogLevels["error"]
        messageLevel == IF LogLevels[level] # 0 THEN LogLevels[level]
                        ELSE LogLevels["info"]
    IN  messageLevel <= currentLevel

\* a call in progress: the function, where it is, whether the error it
\* handles is recoverable, and who called it ("user": the code that reports
\* or logs, "call": the frame below, "listener": a listener that
\* dispatchEvent invoked from the frame below)
Frame(fn, at, recoverable, via) ==
    [fn |-> fn, at |-> at, recoverable |-> recoverable, via |-> via]

Front(s) == SubSeq(s, 1, Len(s) - 1)

\* a RangeError thrown in the top frame: it leaves the frames up to the
\* listener that dispatchEvent invoked, and dispatchEvent, which reports
\* what a listener throws, returns to the frame that dispatched
RECURSIVE Unwind(_)
Unwind(stack) ==
    IF stack = <<>> THEN <<>>
    ELSE IF stack[Len(stack)].via = "listener" THEN Front(stack)
    ELSE Unwind(Front(stack))

\* the top frame, now at `at`, calls frame
Call(ev, at, frame) ==
    IF Len(ev.stack) >= MaxStack
    THEN [ev EXCEPT !.stack = Unwind(ev.stack), !.threw = TRUE]
    ELSE [ev EXCEPT !.stack = Append([@ EXCEPT ![Len(@)].at = at], frame)]

\* the top frame goes on at `at`
GoOn(ev, at) == [ev EXCEPT !.stack[Len(ev.stack)].at = at]

\* the top frame returns
Return(ev) == [ev EXCEPT !.stack = Front(@)]

\* window.dispatchEvent(new CustomEvent(type, ...)) in the top frame, which
\* goes on at `at`: the listener of setupInterModuleCommunication, lines
\* 280-295, calls handleError for 'refextractor:error' and
\* logger[level.toLowerCase()] for 'refextractor:log'
DispatchEvent(ev, at, fn) ==
    IF ev.listening
    THEN Call(ev, at, Frame(fn, "start", FALSE, "listener"))
    ELSE GoOn(ev, at)

\* setupInterModuleCommunication: the two listeners are installed
InstallListeners ==
    /\ ~events.listening
    /\ events.stack = <<>>
    /\ events' = [NoEvents EXCEPT !.listening = TRUE]
    /\ UNCHANGED <<pageVars, reads>>

\* a module reports an error: ErrorHandler.handleError(code, message, ...)
HandleError ==
    /\ events.stack = <<>>
    /\ \E recoverable \in BOOLEAN :
        events' = [NoEvents EXCEPT
                     !.listening = events.listening,
                     !.call = "handleError",
                     !.stack = <<Frame("handleError", "start", recoverable, "user")>>]
    /\ UNCHANGED <<pageVars, reads>>

\* a module logs a message: Logger.error, warn, info or debug
LogMessage ==
    /\ events.stack = <<>>
    /\ \E level \in Levels :
        events' = [NoEvents EXCEPT
                     !.listening = events.listening,
                     !.call = level,
                     !.stack = <<Frame(level, "start", FALSE, "user")>>]
    /\ UNCHANGED <<pageVars, reads>>

\* handleError, lines 337-371, from where the top frame is to its next call
\* or its return: logger.error; storeError (lines 166-183), which pushes
\* the error and dispatches 'refextractor:error'; attemptRecovery, which
\* logs with logger.info (its recovery strategies are left out)
HandleErrorStep ==
    /\ events.stack # <<>>
    /\ LET top == events.stack[Len(events.stack)] IN
        /\ top.fn = "handleError"
        /\ events' =
            IF top.at = "start"
            THEN Call(events, "store", Frame("error", "start", FALSE, "call"))
            ELSE IF top.at = "store"
            THEN IF StoreErrors
                 THEN DispatchEvent([events EXCEPT !.pushedErrors = @ + 1],
                                    "recover", "handleError")
                 ELSE GoOn(events, "recover")
            ELSE IF top.at = "recover" /\ top.recoverable
            THEN Call(events, "return", Frame("info", "start", FALSE, "call"))
            ELSE Return(events)
    /\ UNCHANGED <<pageVars, reads>>

\* Logger.error, warn, info, debug, lines 218-266: shouldLog, createLogEntry
\* and storeLogEntry (lines 113-126), which pushes the entry and dispatches
\* 'refextractor:log'; then outputToConsole and the return
LogStep ==
    /\ events.stack # <<>>
    /\ LET top == events.stack[Len(events.stack)] IN
        /\ top.fn \in Levels
        /\ events' =
            IF top.at = "start" /\ ShouldLog(top.fn)
            THEN DispatchEvent([events EXCEPT !.pushedLogs = @ + 1],
                               "return", top.fn)
            ELSE Return(events)
    /\ UNCHANGED <<pageVars, reads>>

NextEvents ==
    \/ InstallListeners
    \/ HandleError
    \/ LogMessage
    \/ HandleErrorStep
    \/ LogStep

SpecEvents == InitCache /\ [][NextEvents]_vars

\* the keys the cache holds
CachedKeys == {formattingCache[k].key : k \in 1..Len(formattingCache)}

\* C21: the formatting cache never holds more than 100 entries, and what it
\* holds are the results stored last: each time a result is stored beyond
\* 100, the one entry that goes is the one that was stored earliest; a call
\* answered from the cache stores nothing and changes no entry's age.
C21_CacheHoldsNewestHundred ==
    LET n == IF Len(stored) < MaxCacheSize THEN Len(stored) ELSE MaxCacheSize
    IN  /\ Len(formattingCache) = n
        /\ CachedKeys = {stored[k] : k \in (Len(stored) - n + 1)..Len(stored)}
        /\ Cardinality(CachedKeys) = n

\* results were stored beyond the capacity, and the list formatted first, whose
\* entry had gone, was formatted and stored again
C21_Witness ==
    /\ Len(stored) > MaxCacheSize + 1
    /\ stored[Len(stored)] = stored[1]
    /\ Len(formattingCache) = MaxCacheSize

\* C22: a call of setCitations, with a list or with a value that is no
\* array, leaves the formatting cache as it was, keys and values.
C22_SetCitationsKeepsCache ==
    [][SetCitationsTo => formattingCache' = formattingCache]_vars

\* results are cached, and the active list, set by setCitations, is none of
\* the lists they were made from
C22_Witness ==
    /\ formattingCache # <<>>
    /\ currentCitations # <<>>
    /\ \A format \in ApiFormats :
          ~CacheHas(formattingCache, GenerateCacheKey(currentCitations, format))

\* the formats whose text only the rendering library produces
RenderedFormats == {"bibliography", "bibtex", "ris"}

\* C30: a call of format for a format of the rendering library, made when
\* the library is there and works, returns what the library renders for the
\* records: never the fallback text that an earlier call with the same
\* records and format stored while the library was missing or failing.
C30_WorkingRendererIsUsed ==
    [][\A format \in ApiFormats \cap RenderedFormats, citations \in ApiLists :
          (/\ citeAvailable /\ ~citeThrows
           /\ citations # <<>>
           /\ FormatCitations(format, citations))
          => (/\ ~thrown'
              /\ output' = FormatWithCitationJs(citations, format, bibliography)
                               @@ [format |-> format])]_vars

\* the instruction text between the begin marker in node r and the first end
\* marker after it, as far as the 1000 nodes after the begin marker go
Accumulated(nodes, r) ==
    LET ends == {m \in (r + 1)..Len(nodes) : nodes[m].end}
        stop == IF ends = {} THEN Len(nodes) + 1 ELSE Min(ends)
        hi   == IF stop - 1 < r + MaxIterations THEN stop - 1 ELSE r + MaxIterations
    IN  InstrOf(nodes, r + 1, hi)

\* the texts of the markers of the content files that parse, in document order
RECURSIVE MarkerTexts(_, _)
MarkerTexts(contentFiles, documentType) ==
    IF contentFiles = <<>> THEN <<>>
    ELSE LET f == contentFiles[1]
             starts == StartsOf(f.paragraphs)
         IN  (IF ~f.parses THEN <<>>
              ELSE IF documentType = "OfficeOpenXML"
              THEN [k \in 1..Len(starts) |-> Accumulated(starts[k].nodes, starts[k].r)]
              ELSE f.marks)
                \o MarkerTexts(Tail(contentFiles), documentType)

IsBlankText(t) == \A k \in 1..Len(t) : t[k].kind = "space"

\* the text t without the white space at its ends
Stripped(t) ==
    LET inner == {k \in 1..Len(t) : t[k].kind # "space"}
    IN  IF inner = {} THEN <<>>
        ELSE SubSeq(t, Min(inner), CHOOSE k \in inner : \A j \in inner : j <= k)

\* C23: every field the scanner returns is a non-empty text with no white
\* space at its ends; the fields are, in document order, the stripped texts
\* of the markers (the instruction text accumulated after a begin marker, the
\* name of a reference mark) that are not blank; a blank marker gives no field.
C23_FieldsAreTrimmedMarkerTexts ==
    FieldsExtracted =>
        /\ \A k \in 1..Len(fields) :
              /\ fields[k] # <<>>
              /\ fields[k][1].kind # "space"
              /\ fields[k][Len(fields[k])].kind # "space"
        /\ LET texts == SelectSeq(MarkerTexts(currentDocument.contentFiles,
                                              currentDocument.type),
                                  LAMBDA t : ~IsBlankText(t))
           IN  fields = [k \in 1..Len(texts) |-> Stripped(texts[k])]

\* C23 witness: four reference marks, the first with white space around its
\* name and the second blank, gave three fields
C23_Witness ==
    /\ FieldsExtracted
    /\ currentDocument.type = "OpenDocument"
    /\ Len(currentDocument.contentFiles) = 1
    /\ Len(currentDocument.contentFiles[1].marks) = 4
    /\ currentDocument.contentFiles[1].marks[1][1].kind = "space"
    /\ IsBlankText(currentDocument.contentFiles[1].marks[2])
    /\ Len(fields) = 3

\* the structured-data rendering of a list of records, as a value of the text area
DataRendering(citations) ==
    LET out == FormatWithCitationJs(citations, "data", <<>>)
    IN  [text |-> out.text, json |-> out.json]

\* C25: when the handling of a file selection comes to its end with at least
\* one citation, the text area holds the structured-data rendering of the
\* citations of this run: not the empty text, not the rendering of the
\* citations of a file processed before.
C25_TextAreaShowsThisRun ==
    [][(SetCitations /\ Len(result.citations) > 0)
          => textArea' = DataRendering(result.citations)]_vars

\* whether the handler of a selected file gets as far as its results
Accepted(f) ==
    /\ IsDocumentTypeSupported(f)
    /\ f.size <= MaxFileSize
    /\ ~ParseDocument(f).threw

\* the citations processFields returns for the fields of a file
CitationsOf(f) ==
    LET document == ParseDocument(f).document
        parsed   == ParseFields(ExtractFields(document.contentFiles, document.type))
    IN  IF parsed = <<>> THEN <<>>
        ELSE ExtractMetadata(DeduplicateCitations(parsed))

\* no handler is at work or waiting
HandlersFinished == awaiting = <<>> /\ pc \in {"idle", "set"}

\* C26: when a file was selected while the parse of the file selected before
\* it was awaited, then, once both handlers have come to their ends, the
\* counter, the text area, the state of the page and the formatter's active
\* list are those of the file selected last, whichever parse completed first.
C26_LastSelectionWins ==
    (HandlersFinished /\ duringParse) =>
        IF Accepted(file)
        THEN /\ currentState = "completed"
             /\ ~extractCount.error
             /\ extractCount.count = Len(CitationsOf(file))
             /\ currentCitations = CitationsOf(file)
             /\ textArea = IF CitationsOf(file) = <<>> THEN NoOutput
                           ELSE DataRendering(CitationsOf(file))
        ELSE /\ currentState = "error"
             /\ extractCount.error

\* C27: after a call of processFields has returned, getProcessedCitations()
\* is the list of citations that call returned; it is empty after a run in
\* which no field gave an entry, whatever an earlier run had produced.
C27_ProcessedCitationsAreLastResult ==
    pc \in {"processed", "set"} => processedCitations = result.citations

\* the clusters whose records processFields returns as citations
Canonical ==
    SelectSeq(deduplicatedArray, LAMBDA e : e.item # Null /\ HasTitle(e.item[1]))

\* C29: with a library that renders one line for each record, holding the
\* record's title, every citation processFields returned has a row in the
\* body of the counts table, and the row's count is the number of entries of
\* the citation's cluster (1 at least), also for an entry without identifiers.
C29_EveryCitationHasItsRow ==
    (pc = "set" /\ Processed /\ output.format = "bibliography-with-counts") =>
        LET rows == TableRows(output.text) IN
        \A k \in 1..Len(Canonical) :
            \E i \in 1..Len(rows) :
                rows[i] = NumberToString(Cardinality(Members(Canonical[k])))
                            \o <<"TAB">> \o currentCitations[k]["title"]

\* C24: whatever the order in which the reads complete, the array
\* extractMultipleFiles returns has one position for each file name, and at
\* position i the content of the archive's entry fileNames[i].
C24_ContentsFollowFileNames ==
    reads.outcome = "fulfilled" =>
        /\ Len(reads.contents) = Len(reads.fileNames)
        /\ \A i \in 1..Len(reads.fileNames) :
              reads.contents[i] = ZipFile(reads.zip, reads.fileNames[i])[1].content

\* three reads that completed last file first, of different contents
C24_Witness ==
    /\ reads.outcome = "fulfilled"
    /\ reads.order = <<3, 2, 1>>
    /\ reads.contents[1] # reads.contents[3]

\* the call the user's code made has returned or thrown
CallEnded == events.call # "none" /\ events.stack = <<>>

\* a listener has invoked the function of a frame below it
Reinvoked ==
    \E j, k \in 1..Len(events.stack) :
        /\ j < k
        /\ events.stack[k].via = "listener"
        /\ events.stack[k].fn = events.stack[j].fn

\* C28: with the listeners of the application installed, one call of
\* handleError pushes one entry on the error history and one call of a
\* logger method whose level is logged pushes one log entry, the call ends
\* without an exception, and the events dispatched while the entry is stored
\* never invoke the dispatching handler or logger again.
C28_OneEntryPerCall ==
    events.listening =>
        /\ ~Reinvoked
        /\ ~events.threw
        /\ events.call = "handleError" => events.pushedErrors <= 1
        /\ events.call \in Levels => events.pushedLogs <= 1
        /\ (CallEnded /\ events.call = "handleError") => events.pushedErrors = 1
        /\ (CallEnded /\ events.call \in Levels /\ ShouldLog(events.call)) =>
              events.pushedLogs = 1
====
